---- MODULE Spec2Model ----
(***************************************************************************)
(* Model of the cyclo.rewards settlement engine: the Processor class of    *)
(* src/src/processor.ts (approval resolver, balance ledger, liquidity      *)
(* tracker, eligibility engine, reward allocator) and the driver of        *)
(* src/src/index.ts.                                                       *)
(*                                                                         *)
(* JavaScript Maps are modelled as functions whose DOMAIN is the set of    *)
(* keys present; strings keep their letter case and toLowerCase is a       *)
(* table over the strings the model uses.  BigInt values are integers;     *)
(* BigInt division truncates toward zero (BigIntDiv).  The values scaled   *)
(* by ONE = 10^18 are held digit by digit (Magnitude).                     *)
(***************************************************************************)
EXTENDS Integers, Sequences, FiniteSets, TLC

\* ------------------------------------------------------------------------
\* Bounds of the model
\* ------------------------------------------------------------------------
MaxEvents == 2
MaxCalls == 4
MaxReports == 2
MaxBlock == 3
MaxDriverEvents == 2

\* ------------------------------------------------------------------------
\* Program constants
\* ------------------------------------------------------------------------
\* A BigInt beyond the integers of the model checker is held as a magnitude:
\* the sequence of its base-10000 digits, most significant first, without
\* leading zeros (<<>> is 0).
Base == 10000

\* constants.ts: ONE = BigInt(10 ** 18), that is 100 * 10000^4
ONE == <<100, 0, 0, 0, 0>>

\* isApprovedSource(source, retries = 8)
DefaultRetries == 8

\* constructor(snapshot1, snapshot2, ...): the two snapshot blocks of a run
snapshot1 == 1
snapshot2 == 2

\* config.ts
REWARDS_SOURCES == {"0xRouter"}
FACTORIES == {"0xFactory"}
CYTOKENS == <<[name |-> "cysFLR", address |-> "0xCysFLR"],
              [name |-> "cyWETH", address |-> "0xCyWETH"]>>

\* String.prototype.toLowerCase on the strings of the model
toLowerCase(s) ==
  CASE s = "0xRouter"  -> "0xrouter"
    [] s = "0xFactory" -> "0xfactory"
    [] s = "0xCysFLR"  -> "0xcysflr"
    [] s = "0xCyWETH"  -> "0xcyweth"
    [] s = "0xA"       -> "0xa"
    [] s = "0xPool"    -> "0xpool"
    [] OTHER           -> s

\* a comparison that keeps the letter case
isSameAddressCaseSensitive(a, b) == a = b

isSameAddress(a, b) == toLowerCase(a) = toLowerCase(b)

\* BigInt(string) on the decimal strings of the model
BigInt(s) ==
  CASE s = "0"  -> 0
    [] s = "1"  -> 1
    [] s = "2"  -> 2
    [] s = "3"  -> 3
    [] s = "-1" -> 0 - 1
    [] s = "-2" -> 0 - 2
    [] s = "-3" -> 0 - 3

\* BigInt '/' : quotient truncated toward zero (divisor non-zero)
BigIntDiv(a, b) ==
  LET abs(x) == IF x < 0 THEN 0 - x ELSE x
      q == abs(a) \div abs(b)
  IN IF (a < 0) = (b < 0) THEN q ELSE 0 - q

\* the magnitude of a non-negative integer
RECURSIVE Magnitude(_)
Magnitude(n) == IF n = 0 THEN <<>> ELSE Append(Magnitude(n \div Base), n % Base)

RECURSIVE StripZeros(_)
StripZeros(s) == IF s # <<>> /\ Head(s) = 0 THEN StripZeros(Tail(s)) ELSE s

\* the sequence without its last digit
Front(s) == SubSeq(s, 1, Len(s) - 1)

\* s * n + carry, for a magnitude s and non-negative integers n, carry
RECURSIVE TimesCarry(_, _, _)
TimesCarry(s, n, carry) ==
  IF s = <<>>
  THEN Magnitude(carry)
  ELSE LET p == s[Len(s)] * n + carry
       IN Append(TimesCarry(Front(s), n, p \div Base), p % Base)

\* BigInt '*' of a magnitude and a non-negative integer
BigIntTimes(s, n) == IF n = 0 THEN <<>> ELSE TimesCarry(s, n, 0)

\* the quotient digits of s from digit i on, rem being the remainder so far
RECURSIVE DivideFrom(_, _, _, _)
DivideFrom(s, n, i, rem) ==
  IF i > Len(s)
  THEN <<>>
  ELSE LET cur == rem * Base + s[i]
       IN <<cur \div n>> \o DivideFrom(s, n, i + 1, cur % n)

\* BigInt '/' of a magnitude by a positive integer
BigIntOver(s, n) == StripZeros(DivideFrom(s, n, 1, 0))

\* a + b + carry for two magnitudes
RECURSIVE PlusCarry(_, _, _)
PlusCarry(a, b, carry) ==
  IF a = <<>> /\ b = <<>>
  THEN Magnitude(carry)
  ELSE LET da == IF a = <<>> THEN 0 ELSE a[Len(a)]
           db == IF b = <<>> THEN 0 ELSE b[Len(b)]
           sum == da + db + carry
       IN Append(PlusCarry(IF a = <<>> THEN a ELSE Front(a),
                           IF b = <<>> THEN b ELSE Front(b), sum \div Base),
                 sum % Base)

\* BigInt '+' of two magnitudes
BigIntPlus(a, b) == PlusCarry(a, b, 0)

\* a <= b for two magnitudes of the same length, compared from digit i on
RECURSIVE LessOrEqualFrom(_, _, _)
LessOrEqualFrom(a, b, i) ==
  IF i > Len(a) THEN TRUE
  ELSE IF a[i] # b[i] THEN a[i] < b[i]
  ELSE LessOrEqualFrom(a, b, i + 1)

\* BigInt '<=' of two magnitudes
BigIntLessOrEqual(a, b) ==
  IF Len(a) # Len(b) THEN Len(a) < Len(b) ELSE LessOrEqualFrom(a, b, 1)

\* the largest q of lo..hi with d * q <= n (lo being one such q)
RECURSIVE QuotientBetween(_, _, _, _)
QuotientBetween(n, d, lo, hi) ==
  IF lo = hi THEN lo
  ELSE LET mid == (lo + hi + 1) \div 2
       IN IF BigIntLessOrEqual(BigIntTimes(d, mid), n)
          THEN QuotientBetween(n, d, mid, hi)
          ELSE QuotientBetween(n, d, lo, mid - 1)

\* BigInt '/' of two magnitudes whose quotient is at most bound (d non-zero)
BigIntQuotient(n, d, bound) == QuotientBetween(n, d, 0, bound)

EmptyMap == [x \in {} |-> 0]

\* the tracked positions of a new processor: one empty map per snapshot
EmptyTrackList == <<EmptyMap, EmptyMap>>

\* Map.set
MapSet(m, k, v) == (k :> v) @@ m

\* a map built by a loop, held as a plain value
Built(m) == m @@ EmptyMap

\* ------------------------------------------------------------------------
\* Inputs
\* ------------------------------------------------------------------------
\* Addresses of the model: "0xrouter" is the allow-listed router in the
\* lower-case form the subgraph delivers, "0xpool" a contract that may have a
\* factory(), "0xa" and "0xb" are users, "0xdead" is a token that is not
\* configured.
SourceAddresses == {"0xRouter", "0xrouter", "0xPool", "0xpool"}
ReportAddresses == {"0xa", "0xb"}
TransferValues == {"1", "2"}
LiquidityValues == {"1", "-2"}
Blocks == 1..MaxBlock
Pools == {7, 100}

\* what one readContract({functionName: "factory"}) attempt produces
RpcReturn(factory) == [kind |-> "return", factory |-> factory, shortMessage |-> ""]
RpcError(msg) == [kind |-> "error", factory |-> "", shortMessage |-> msg]
Transient == RpcError("rate limited")
RpcFinals == {RpcReturn("0xfactory"), RpcReturn("0xother"),
              RpcError("returned no data (\"0x\")"),
              RpcError("execution reverted"),
              RpcError("The contract function \"factory\" reverted."),
              RpcError("invalid parameters"),
              RpcError("")}
\* the answers the RPC gives to attempts 1..retries: k transient failures,
\* then a final answer (answers after the first non-transient one are never
\* requested)
RpcScript(k, final) == [i \in 1..DefaultRetries |-> IF i = k + 1 THEN final ELSE Transient]
RpcScripts == {RpcScript(k, f) : k \in 0..(DefaultRetries - 1), f \in RpcFinals}
                 \cup {[i \in 1..DefaultRetries |-> Transient]}

\* String.prototype.includes on the error messages of the model: whether the
\* message s contains the text sub
Includes(s, sub) ==
  CASE sub = "returned no data (\"0x\")" ->
         s \in {"returned no data (\"0x\")",
                "The contract function \"factory\" returned no data (\"0x\")."}
    [] sub = "reverted" ->
         s \in {"reverted", "execution reverted",
                "The contract function \"factory\" reverted."}
    [] sub = "invalid parameters" ->
         s \in {"invalid parameters", "invalid parameters: x",
                "Missing or invalid parameters."}
    [] OTHER -> s = sub

\* a signature list that misses the revert
IsNoFactoryMessageWithoutReverted(msg) ==
  \/ Includes(msg, "returned no data (\"0x\")")
  \/ Includes(msg, "invalid parameters")

\* e.shortMessage.includes(...) for the three no-factory signatures
IsNoFactoryMessage(msg) ==
  \/ Includes(msg, "returned no data (\"0x\")")
  \/ Includes(msg, "reverted")
  \/ Includes(msg, "invalid parameters")

VARIABLES
  approvedSourceCache,      \* Map<string, boolean>
  accountBalancesPerToken,  \* Map<token, Map<account, AccountBalance>>
  accountTransfers,         \* Map<account, AccountTransfers>
  reports,                  \* constructor argument
  transfers,                \* driver: transfer records consumed so far
  liquidities,              \* driver: liquidity records consumed so far
  pc,                       \* driver position ("api" when the class is called directly)
  nEvents,                  \* number of events applied so far
  lastOp,                   \* the method that returned in the last step ("await": none)
  lastArg,                  \* its argument
  lastRet,                  \* its return value
  lastErr,                  \* the error it threw ("" when it returned)
  lastRpc,                  \* number of RPC attempts it made
  lastScript,               \* the RPC answers it was given (<<>> when it makes no lookup)
  lp3TrackList,             \* per snapshot, Map<lpId, tracked V3 position>
  output,                   \* driver: the rewards written to output/ (<<>> before)
  inFlight,                 \* event loop: the calls started and not yet returned
  locals                    \* driver: the values main holds between its awaits

vars == <<approvedSourceCache, accountBalancesPerToken, accountTransfers, reports,
          transfers, liquidities, pc, nEvents, lastOp, lastArg, lastRet, lastErr, lastRpc,
          lastScript, lp3TrackList, output, inFlight, locals>>

\* ------------------------------------------------------------------------
\* Processor.isApprovedSource.  The method is asynchronous: it runs from its
\* entry to `await readContract`, from the settling of readContract to the
\* backoff `await new Promise(setTimeout)` or to its return, and from the end
\* of the backoff to the next readContract.  `at` names where it stands:
\* "readContract", "setTimeout", or "return" when it has returned.
\* ------------------------------------------------------------------------
\* a cache that is looked up with the address as given
LookupStartCaseSensitive(cache, source) ==
  IF source \in DOMAIN cache
  THEN [at |-> "return", isApproved |-> cache[source], cache |-> cache]
  ELSE IF \E addr \in REWARDS_SOURCES : isSameAddress(addr, source)
  THEN [at |-> "return", isApproved |-> TRUE,
        cache |-> MapSet(cache, toLowerCase(source), TRUE)]
  ELSE [at |-> "readContract", isApproved |-> FALSE, cache |-> cache]

\* isApprovedSource from its entry to its first await or its return
LookupStart(cache, source) ==
  IF toLowerCase(source) \in DOMAIN cache
  THEN [at |-> "return", isApproved |-> cache[toLowerCase(source)], cache |-> cache]
  ELSE IF \E addr \in REWARDS_SOURCES : isSameAddress(addr, source)
  THEN [at |-> "return", isApproved |-> TRUE,
        cache |-> MapSet(cache, toLowerCase(source), TRUE)]
  ELSE [at |-> "readContract", isApproved |-> FALSE, cache |-> cache]

\* a lookup that gives up after the last attempt without recording the answer
LookupSettleExhaustedUncached(cache, source, retries, out, attempt) ==
  IF out.kind = "return"
  THEN LET isApproved == \E addr \in FACTORIES : isSameAddress(addr, out.factory)
       IN [at |-> "return", isApproved |-> isApproved,
           cache |-> MapSet(cache, toLowerCase(source), isApproved)]
  ELSE IF out.shortMessage # "" /\ IsNoFactoryMessage(out.shortMessage)
  THEN [at |-> "return", isApproved |-> FALSE,
        cache |-> MapSet(cache, toLowerCase(source), FALSE)]
  ELSE IF attempt < retries - 1
  THEN [at |-> "setTimeout", isApproved |-> FALSE, cache |-> cache]
  ELSE [at |-> "return", isApproved |-> FALSE, cache |-> cache]

\* isApprovedSource from the settling of the readContract of the given
\* attempt (0-based) to its next await or its return; cache is the cache at
\* that moment
LookupSettle(cache, source, retries, out, attempt) ==
  IF out.kind = "return"
  THEN LET isApproved == \E addr \in FACTORIES : isSameAddress(addr, out.factory)
       IN [at |-> "return", isApproved |-> isApproved,
           cache |-> MapSet(cache, toLowerCase(source), isApproved)]
  ELSE IF out.shortMessage # "" /\ IsNoFactoryMessage(out.shortMessage)
  THEN [at |-> "return", isApproved |-> FALSE,
        cache |-> MapSet(cache, toLowerCase(source), FALSE)]
  ELSE IF attempt < retries - 1
  THEN [at |-> "setTimeout", isApproved |-> FALSE, cache |-> cache]
  ELSE [at |-> "return", isApproved |-> FALSE,
        cache |-> MapSet(cache, toLowerCase(source), FALSE)]

\* the attempts of a lookup that nothing else runs between: the loop
\* `for (let attempt = 0; attempt < retries; attempt++)`
RECURSIVE FactoryLoop(_, _, _, _, _)
FactoryLoop(cache, source, retries, script, attempt) ==
  IF attempt >= retries
  THEN [result |-> FALSE, cache |-> cache, rpc |-> attempt]
  ELSE LET s == LookupSettle(cache, source, retries, script[attempt + 1], attempt)
       IN IF s.at = "setTimeout"
          THEN FactoryLoop(s.cache, source, retries, script, attempt + 1)
          ELSE [result |-> s.isApproved, cache |-> s.cache, rpc |-> attempt + 1]

\* a whole lookup that nothing else runs between
isApprovedSource(cache, source, retries, script) ==
  LET s == LookupStart(cache, source)
  IN IF s.at = "return"
     THEN [result |-> s.isApproved, cache |-> s.cache, rpc |-> 0]
     ELSE FactoryLoop(s.cache, source, retries, script, 0)

\* ------------------------------------------------------------------------
\* Processor.processTransfer
\* ------------------------------------------------------------------------
ZeroBalance ==
  [transfersInFromApproved |-> 0, transfersOut |-> 0,
   netBalanceAtSnapshot1 |-> 0, netBalanceAtSnapshot2 |-> 0,
   currentNetBalance |-> 0]

EmptyAccountTransfers == [transfersIn |-> <<>>, transfersOut |-> <<>>]

\* an initialisation that, for a new account, zeroes every entry of the map
InitBalanceResetting(balances, account) ==
  IF account \in DOMAIN balances THEN balances
  ELSE Built([a \in DOMAIN balances \cup {account} |-> ZeroBalance])

\* "Initialize balances if needed"
InitBalance(balances, account) ==
  IF account \in DOMAIN balances THEN balances ELSE MapSet(balances, account, ZeroBalance)

\* balances.get(account), or a zeroed entry
EntryOrZeroBalance(balances, account) ==
  IF account \in DOMAIN balances THEN balances[account] ELSE ZeroBalance

\* a net balance that is not floored at zero
NetOfTransfersUnclamped(balance) ==
  [balance EXCEPT !.currentNetBalance =
     balance.transfersInFromApproved - balance.transfersOut]

\* currentNetBalance = transfersInFromApproved - transfersOut; if (< 0n) = 0n
NetOfTransfers(balance) ==
  LET net == balance.transfersInFromApproved - balance.transfersOut
  IN [balance EXCEPT !.currentNetBalance = IF net < 0 THEN 0 ELSE net]

\* a forward-fill that writes both slots whatever the block
UpdateSnapshotsAlways(balance, blockNumber) ==
  [balance EXCEPT
     !.netBalanceAtSnapshot1 = balance.currentNetBalance,
     !.netBalanceAtSnapshot2 = balance.currentNetBalance]

\* "Update snapshot balances"
UpdateSnapshots(balance, blockNumber) ==
  [balance EXCEPT
     !.netBalanceAtSnapshot1 =
        IF blockNumber <= snapshot1 THEN balance.currentNetBalance ELSE @,
     !.netBalanceAtSnapshot2 =
        IF blockNumber <= snapshot2 THEN balance.currentNetBalance ELSE @]

\* a credit that does not look at the sender's approval
CreditReceiverAlways(balances, transfer, isApproved, value) ==
  LET toBalance == balances[transfer.to]
      credited == [toBalance EXCEPT !.transfersInFromApproved = @ + value]
  IN MapSet(balances, transfer.to,
            UpdateSnapshots(NetOfTransfers(credited), transfer.blockNumber))

\* a credit that stores the value received last instead of the running total
CreditReceiverOverwrite(balances, transfer, isApproved, value) ==
  IF isApproved
  THEN LET toBalance == balances[transfer.to]
           credited == [toBalance EXCEPT !.transfersInFromApproved = value]
       IN MapSet(balances, transfer.to,
                 UpdateSnapshots(NetOfTransfers(credited), transfer.blockNumber))
  ELSE balances

\* if (isApproved) { toBalance.transfersInFromApproved += value; ... }
CreditReceiver(balances, transfer, isApproved, value) ==
  IF isApproved
  THEN LET toBalance == balances[transfer.to]
           credited == [toBalance EXCEPT !.transfersInFromApproved = @ + value]
       IN MapSet(balances, transfer.to,
                 UpdateSnapshots(NetOfTransfers(credited), transfer.blockNumber))
  ELSE balances

\* a debit that is skipped for a sender that never received from an
\* approved source
DebitSenderIfHolding(balances, transfer, value) ==
  LET fromBalance == balances[transfer.from]
      debited == [fromBalance EXCEPT !.transfersOut = @ + value]
  IN IF fromBalance.transfersInFromApproved = 0
     THEN balances
     ELSE MapSet(balances, transfer.from,
                 UpdateSnapshots(NetOfTransfers(debited), transfer.blockNumber))

\* "Always track transfers out"
DebitSender(balances, transfer, value) ==
  LET fromBalance == balances[transfer.from]
      debited == [fromBalance EXCEPT !.transfersOut = @ + value]
  IN MapSet(balances, transfer.from,
            UpdateSnapshots(NetOfTransfers(debited), transfer.blockNumber))

\* the transfer log kept per account
TrackTransfers(log, transfer, isApproved) ==
  LET log1 == IF transfer.to \in DOMAIN log THEN log
              ELSE MapSet(log, transfer.to, EmptyAccountTransfers)
      log2 == [log1 EXCEPT ![transfer.to].transfersIn =
                 Append(@, [value |-> transfer.value, fromIsApprovedSource |-> isApproved])]
      log3 == IF transfer.from \in DOMAIN log2 THEN log2
              ELSE MapSet(log2, transfer.from, EmptyAccountTransfers)
  IN [log3 EXCEPT ![transfer.from].transfersOut = Append(@, [value |-> transfer.value])]

\* "Initialize balances if needed" and "Update balances" on one token's map
UpdateBalances(accountBalances, transfer, isApproved, value) ==
  LET b1 == InitBalance(InitBalance(accountBalances, transfer.to), transfer.from)
      b2 == CreditReceiver(b1, transfer, isApproved, value)
  IN DebitSender(b2, transfer, value)

NoTokenError == "No account balances found for token"

\* processTransfer from the return of isApprovedSource to its end
processTransferAfterLookup(ledger, log, transfer, isApproved) ==
  LET value == BigInt(transfer.value)
      log2 == TrackTransfers(log, transfer, isApproved)
  IN IF transfer.tokenAddress \notin DOMAIN ledger
     THEN [ledger |-> ledger, log |-> log2, err |-> NoTokenError]
     ELSE [ledger |-> [ledger EXCEPT ![transfer.tokenAddress] =
                         UpdateBalances(@, transfer, isApproved, value)],
           log |-> log2, err |-> ""]

\* a whole processTransfer that nothing else runs between: the new cache,
\* ledger and log, the error thrown (if any) and the number of RPC attempts
\* made
processTransfer(cache, ledger, log, transfer, script) ==
  LET approval == isApprovedSource(cache, transfer.from, DefaultRetries, script)
      r == processTransferAfterLookup(ledger, log, transfer, approval.result)
  IN [cache |-> approval.cache, ledger |-> r.ledger, log |-> r.log, err |-> r.err,
      rpc |-> approval.rpc, isApproved |-> approval.result]

\* ------------------------------------------------------------------------
\* Processor.processLiquidityPositions
\* ------------------------------------------------------------------------
\* ownerBalance.currentNetBalance += depositedBalanceChange; if (< 0n) = 0n
ApplyLiquidityChange(balance, depositedBalanceChange) ==
  LET net == balance.currentNetBalance + depositedBalanceChange
  IN [balance EXCEPT !.currentNetBalance = IF net < 0 THEN 0 ELSE net]

processLiquidityPositions(ledger, liquidityChangeEvent) ==
  LET depositedBalanceChange == BigInt(liquidityChangeEvent.depositedBalanceChange)
  IN IF liquidityChangeEvent.tokenAddress \notin DOMAIN ledger
     THEN [ledger |-> ledger, err |-> NoTokenError]
     ELSE LET accountBalances ==
                InitBalance(ledger[liquidityChangeEvent.tokenAddress],
                            liquidityChangeEvent.owner)
              ownerBalance == accountBalances[liquidityChangeEvent.owner]
              updated == UpdateSnapshots(
                            ApplyLiquidityChange(ownerBalance, depositedBalanceChange),
                            liquidityChangeEvent.blockNumber)
          IN [ledger |-> [ledger EXCEPT ![liquidityChangeEvent.tokenAddress] =
                            MapSet(accountBalances, liquidityChangeEvent.owner, updated)],
              err |-> ""]

\* ------------------------------------------------------------------------
\* Processor.getUniqueAddresses / getEligibleBalances
\* ------------------------------------------------------------------------
\* token.address.toLowerCase() for token of CYTOKENS
TokenKeys == {toLowerCase(CYTOKENS[i].address) : i \in 1..Len(CYTOKENS)}

RECURSIVE SumOver(_, _)
SumOver(S, f) ==
  IF S = {} THEN 0
  ELSE LET x == CHOOSE y \in S : TRUE IN f[x] + SumOver(S \ {x}, f)

\* an address set that leaves the reporters out
getUniqueAddressesWithoutReporters(ledger, reportList) ==
  UNION {DOMAIN ledger[token] : token \in TokenKeys}

getUniqueAddresses(ledger, reportList) ==
  {toLowerCase(reportList[i].reporter) : i \in 1..Len(reportList)}
    \cup UNION {DOMAIN ledger[token] : token \in TokenKeys}

\* first pass: snapshots and average of one address in one token
BaseBalance(accountBalances, address) ==
  LET key == toLowerCase(address)
      has == key \in DOMAIN accountBalances
      s1 == IF has THEN accountBalances[key].netBalanceAtSnapshot1 ELSE 0
      s2 == IF has THEN accountBalances[key].netBalanceAtSnapshot2 ELSE 0
  IN [snapshot1 |-> s1, snapshot2 |-> s2, average |-> BigIntDiv(s1 + s2, 2),
      penalty |-> 0, bounty |-> 0, final |-> 0]

\* a report whose bounty is one percent of the penalty
ApplyReportOnePercent(userBalances, report) ==
  LET cheater == toLowerCase(report.cheater)
      reporter == toLowerCase(report.reporter)
  IN IF cheater \notin DOMAIN userBalances \/ reporter \notin DOMAIN userBalances
     THEN userBalances
     ELSE LET penalty == userBalances[cheater].average
              bounty == BigIntDiv(penalty, 100)
              penalised == [userBalances EXCEPT ![cheater].penalty = @ + penalty]
          IN [penalised EXCEPT ![reporter].bounty = @ + bounty]

\* a report that sets the cheater's penalty instead of adding to it
ApplyReportPenaltyOnce(userBalances, report) ==
  LET cheater == toLowerCase(report.cheater)
      reporter == toLowerCase(report.reporter)
  IN IF cheater \notin DOMAIN userBalances \/ reporter \notin DOMAIN userBalances
     THEN userBalances
     ELSE LET penalty == userBalances[cheater].average
              bounty == BigIntDiv(penalty * 10, 100)
              penalised == [userBalances EXCEPT ![cheater].penalty = penalty]
          IN [penalised EXCEPT ![reporter].bounty = @ + bounty]

\* second pass, one report applied to one token's summaries
ApplyReport(userBalances, report) ==
  LET cheater == toLowerCase(report.cheater)
      reporter == toLowerCase(report.reporter)
  IN IF cheater \notin DOMAIN userBalances \/ reporter \notin DOMAIN userBalances
     THEN userBalances
     ELSE LET penalty == userBalances[cheater].average
              bounty == BigIntDiv(penalty * 10, 100)
              penalised == [userBalances EXCEPT ![cheater].penalty = @ + penalty]
          IN [penalised EXCEPT ![reporter].bounty = @ + bounty]

RECURSIVE ApplyReports(_, _, _)
ApplyReports(userBalances, reportList, i) ==
  IF i > Len(reportList) THEN userBalances
  ELSE ApplyReports(ApplyReport(userBalances, reportList[i]), reportList, i + 1)

\* a final balance that leaves the bounty out
FinalBalanceWithoutBounty(balance) ==
  [balance EXCEPT !.final = balance.average - balance.penalty]

\* third pass: balance.final = balance.average - balance.penalty + balance.bounty
FinalBalance(balance) ==
  [balance EXCEPT !.final = balance.average - balance.penalty + balance.bounty]

\* getEligibleBalances after `await this.getUniqueAddresses()`: the three
\* passes over the addresses collected before the await, reading the ledger
\* as it is after it
getEligibleBalancesAfterAwait(allAddresses, ledger, reportList) ==
  Built([token \in TokenKeys |->
     LET base == Built([address \in allAddresses |-> BaseBalance(ledger[token], address)])
         reported == ApplyReports(base, reportList, 1)
     IN Built([address \in allAddresses |-> FinalBalance(reported[address])])])

\* a whole getEligibleBalances that nothing else runs between
getEligibleBalances(ledger, reportList) ==
  getEligibleBalancesAfterAwait(getUniqueAddresses(ledger, reportList), ledger, reportList)

\* ------------------------------------------------------------------------
\* Reward allocation
\* ------------------------------------------------------------------------
calculateTotalEligibleBalances(balances) ==
  Built([token \in TokenKeys |->
     SumOver(DOMAIN balances[token],
             [a \in DOMAIN balances[token] |-> balances[token][a].final])])

getTokensWithBalance(balances) ==
  {token \in TokenKeys : calculateTotalEligibleBalances(balances)[token] > 0}

DivisionByZero == "RangeError: Division by zero"

\* a split in proportion to the totals instead of their inverses
calculateRewardsPoolsProportional(balances, rewardPool) ==
  LET totalBalances == calculateTotalEligibleBalances(balances)
      tokensWithBalance == getTokensWithBalance(balances)
      sumOfAllBalances == SumOver(TokenKeys, totalBalances)
  IN IF tokensWithBalance # {} /\ sumOfAllBalances = 0
     THEN [err |-> DivisionByZero, pools |-> EmptyMap]
     ELSE [err |-> "",
           pools |-> [token \in tokensWithBalance |->
                        BigIntDiv(totalBalances[token] * rewardPool, sumOfAllBalances)]]

\* a split in equal parts between the tokens with balance
calculateRewardsPoolsEqualSplit(balances, rewardPool) ==
  LET tokensWithBalance == getTokensWithBalance(balances)
  IN [err |-> "",
      pools |-> [token \in tokensWithBalance |->
                   BigIntDiv(rewardPool, Cardinality(tokensWithBalance))]]

\* sign and absolute value of an integer
Sign(x) == IF x < 0 THEN 0 - 1 ELSE IF x > 0 THEN 1 ELSE 0
Abs(x) == IF x < 0 THEN 0 - x ELSE x

\* (sumOfAllBalances * ONE) / totalBalance, the total being positive: the
\* magnitude of the quotient (its sign is the sign of sumOfAllBalances)
InverseFraction(sumOfAllBalances, totalBalance) ==
  BigIntOver(BigIntTimes(ONE, Abs(sumOfAllBalances)), totalBalance)

\* the sum of magnitudes over a set of keys
RECURSIVE BigIntSumOver(_, _)
BigIntSumOver(keys, f) ==
  IF keys = {} THEN <<>>
  ELSE LET k == CHOOSE x \in keys : TRUE
       IN BigIntPlus(f[k], BigIntSumOver(keys \ {k}, f))

\* the per-token pools, or the error the BigInt division raises.  The
\* inverse fractions all carry the sign of sumOfAllBalances, which cancels in
\* (tokenInverseFraction * rewardPool) / sumOfInverseFractions.
calculateRewardsPoolsPertoken(balances, rewardPool) ==
  LET totalBalances == calculateTotalEligibleBalances(balances)
      tokensWithBalance == getTokensWithBalance(balances)
      sumOfAllBalances == SumOver(TokenKeys, totalBalances)
      tokenInverseFractions ==
        Built([token \in tokensWithBalance |->
                 InverseFraction(sumOfAllBalances, totalBalances[token])])
      sumOfInverseFractions == BigIntSumOver(tokensWithBalance, tokenInverseFractions)
  IN IF tokensWithBalance # {} /\ sumOfInverseFractions = <<>>
     THEN [err |-> DivisionByZero, pools |-> EmptyMap]
     ELSE [err |-> "",
           pools |-> [token \in tokensWithBalance |->
                        Sign(rewardPool) *
                          BigIntQuotient(BigIntTimes(tokenInverseFractions[token],
                                                     Abs(rewardPool)),
                                         sumOfInverseFractions, Abs(rewardPool))]]

\* reward of one account: final * tokenReward / totalBalance
AccountReward(final, tokenReward, totalBalance) ==
  BigIntDiv(final * tokenReward, totalBalance)

\* calculateRewards after `await this.getEligibleBalances()`
calculateRewardsAfterAwait(balances, rewardPool) ==
  LET perToken == calculateRewardsPoolsPertoken(balances, rewardPool)
      totalBalances == calculateTotalEligibleBalances(balances)
      tokensWithBalance == getTokensWithBalance(balances)
  IN IF perToken.err # ""
     THEN [err |-> perToken.err, rewards |-> EmptyMap]
     ELSE [err |-> "",
           rewards |-> [token \in tokensWithBalance |->
                          [address \in DOMAIN balances[token] |->
                             AccountReward(balances[token][address].final,
                                           perToken.pools[token],
                                           totalBalances[token])]]]

\* a whole calculateRewards that nothing else runs between
calculateRewards(ledger, reportList, rewardPool) ==
  calculateRewardsAfterAwait(getEligibleBalances(ledger, reportList), rewardPool)

\* ------------------------------------------------------------------------
\* The Processor called method by method
\* ------------------------------------------------------------------------
Transfer(from, to, value, blockNumber, tokenAddress) ==
  [from |-> from, to |-> to, value |-> value, blockNumber |-> blockNumber,
   tokenAddress |-> tokenAddress]

\* transfer records of the input
Transfers ==
  {Transfer("0xrouter", to, v, b, "0xcysflr") :
     to \in {"0xa", "0xb"}, v \in TransferValues, b \in Blocks}
    \cup {Transfer("0xa", "0xb", v, b, "0xcysflr") : v \in TransferValues, b \in Blocks}
    \cup {Transfer("0xpool", "0xa", "1", b, "0xcysflr") : b \in Blocks}
    \cup {Transfer("0xrouter", "0xa", "1", 1, "0xcyweth"),
          Transfer("0xa", "0xb", "1", 2, "0xcyweth"),
          Transfer("0xa", "0xb", "1", 1, "0xdead"),
          Transfer("0xpool", "0xa", "1", 1, "0xdead")}

LiquidityChange(owner, depositedBalanceChange, blockNumber, tokenAddress) ==
  [owner |-> owner, depositedBalanceChange |-> depositedBalanceChange,
   blockNumber |-> blockNumber, tokenAddress |-> tokenAddress]

\* liquidity change records of the input
LiquidityChanges ==
  {LiquidityChange("0xa", d, b, "0xcysflr") : d \in LiquidityValues, b \in Blocks}
    \cup {LiquidityChange("0xa", "1", 1, "0xcyweth"),
          LiquidityChange("0xa", "1", 1, "0xdead")}

\* the RPC answers a transfer's approval lookup may get
TransferScripts ==
  {RpcScript(0, RpcReturn("0xfactory")), RpcScript(0, RpcError("execution reverted"))}

Report(reporter, cheater) == [reporter |-> reporter, cheater |-> cheater]

Reports == {Report(r, c) : r \in ReportAddresses, c \in ReportAddresses}

RECURSIVE SeqsUpTo(_, _)
SeqsUpTo(S, n) ==
  IF n = 0 THEN {<<>>}
  ELSE LET shorter == SeqsUpTo(S, n - 1)
       IN shorter \cup {Append(q, x) : q \in {r \in shorter : Len(r) = n - 1}, x \in S}

ReportLists == SeqsUpTo(Reports, MaxReports)

\* new Processor(snapshot1, snapshot2, reports)
Constructed(reportList) ==
  /\ approvedSourceCache = EmptyMap
  /\ accountBalancesPerToken = [token \in TokenKeys |-> EmptyMap]
  /\ accountTransfers = EmptyMap
  /\ reports = reportList
  /\ transfers = <<>>
  /\ liquidities = <<>>
  /\ nEvents = 0
  /\ lastOp = "constructor"
  /\ lastArg = reportList
  /\ lastRet = <<>>
  /\ lastErr = ""
  /\ lastRpc = 0
  /\ lastScript = <<>>
  /\ lp3TrackList = EmptyTrackList
  /\ output = <<>>
  /\ inFlight = <<>>
  /\ locals = <<>>

Init ==
  /\ pc = "api"
  /\ Constructed(<<>>)

\* ------------------------------------------------------------------------
\* The event loop.  The asynchronous methods run in steps: a step is what
\* runs between two suspension points, and the calls that have started and
\* not returned are held in inFlight.  lastOp .. lastScript describe the
\* method that returned in the step ("await" when none did).
\* ------------------------------------------------------------------------
\* a call that has started and not returned: the method, its argument, the
\* await it stands at and its local variables
Pending(op, arg, at, local) == [op |-> op, arg |-> arg, at |-> at, local |-> local]

\* the locals of a lookup: the answers the RPC gives to its attempts, the
\* index of the attempt it is in, the RPC calls made and the result
LookupLocals(script, attempt, rpc, isApproved) ==
  [script |-> script, attempt |-> attempt, rpc |-> rpc, isApproved |-> isApproved]

\* the address a suspended lookup is about
LookupSource(call) == IF call.op = "processTransfer" THEN call.arg.from ELSE call.arg

\* a sequence without its i-th element
RemoveAt(s, i) == SubSeq(s, 1, i - 1) \o SubSeq(s, i + 1, Len(s))

\* the step ends at an await: no method has returned
NothingReturned ==
  /\ lastOp' = "await"
  /\ lastArg' = <<>>
  /\ lastRet' = <<>>
  /\ lastErr' = ""
  /\ lastRpc' = 0
  /\ lastScript' = <<>>

\* the step ends with the return of a method (err is the error it threw, ""
\* when it returned a value); main ends when a call it awaits rejects
Returned(op, arg, ret, err, rpc, script) ==
  /\ lastOp' = op
  /\ lastArg' = arg
  /\ lastRet' = ret
  /\ lastErr' = err
  /\ lastRpc' = rpc
  /\ lastScript' = script
  /\ pc' = IF err = "" \/ pc = "api" THEN pc ELSE "failed"

\* isApprovedSource(source) is called: it returns at once on a cache hit or an
\* allow-listed source, and is suspended at readContract otherwise
CallIsApprovedSource(source, script) ==
  /\ pc = "api"
  /\ nEvents + Len(inFlight) < MaxCalls
  /\ LET s == LookupStart(approvedSourceCache, source)
     IN /\ approvedSourceCache' = s.cache
        /\ IF s.at = "return"
           THEN /\ inFlight' = inFlight
                /\ nEvents' = nEvents + 1
                /\ Returned("isApprovedSource", source, s.isApproved, "", 0, script)
           ELSE /\ inFlight' = Append(inFlight,
                                      Pending("isApprovedSource", source, s.at,
                                              LookupLocals(script, 0, 0, FALSE)))
                /\ nEvents' = nEvents
                /\ NothingReturned
                /\ pc' = pc
  /\ UNCHANGED <<accountBalancesPerToken, accountTransfers, reports, transfers,
                 liquidities, lp3TrackList, output, locals>>

\* processTransfer(transfer) is called: it runs to
\* `await this.isApprovedSource(transfer.from)`, the lookup running to its
\* first await or its return
CallProcessTransfer(transfer, script) ==
  /\ pc = "api"
  /\ nEvents + Len(inFlight) < MaxEvents
  /\ LET s == LookupStart(approvedSourceCache, transfer.from)
     IN /\ approvedSourceCache' = s.cache
        /\ inFlight' = Append(inFlight,
                              Pending("processTransfer", transfer,
                                      IF s.at = "return" THEN "isApprovedSource" ELSE s.at,
                                      LookupLocals(script, 0, 0, s.isApproved)))
  /\ NothingReturned
  /\ UNCHANGED <<accountBalancesPerToken, accountTransfers, reports, transfers,
                 liquidities, pc, nEvents, lp3TrackList, output, locals>>

\* the readContract of a suspended lookup settles: the lookup runs to its
\* backoff or to its return.  An isApprovedSource called by itself returns to
\* its caller; a processTransfer stays suspended on the lookup.
ReadContractSettles(i) ==
  /\ pc # "failed"
  /\ i \in 1..Len(inFlight)
  /\ inFlight[i].at = "readContract"
  /\ LET call == inFlight[i]
         s == LookupSettle(approvedSourceCache, LookupSource(call), DefaultRetries,
                           call.local.script[call.local.attempt + 1], call.local.attempt)
         local == LookupLocals(call.local.script, call.local.attempt,
                               call.local.rpc + 1, s.isApproved)
     IN /\ approvedSourceCache' = s.cache
        /\ IF call.op = "isApprovedSource" /\ s.at = "return"
           THEN /\ inFlight' = RemoveAt(inFlight, i)
                /\ nEvents' = nEvents + 1
                /\ Returned("isApprovedSource", call.arg, s.isApproved, "", local.rpc,
                            local.script)
           ELSE /\ inFlight' = [inFlight EXCEPT ![i] =
                                  Pending(call.op, call.arg,
                                          IF s.at = "return" THEN "isApprovedSource"
                                          ELSE s.at,
                                          local)]
                /\ nEvents' = nEvents
                /\ NothingReturned
                /\ pc' = pc
  /\ UNCHANGED <<accountBalancesPerToken, accountTransfers, reports, transfers,
                 liquidities, lp3TrackList, output, locals>>

\* the backoff delay of a suspended lookup elapses: the next attempt is made
BackoffElapses(i) ==
  /\ pc # "failed"
  /\ i \in 1..Len(inFlight)
  /\ inFlight[i].at = "setTimeout"
  /\ inFlight' = [inFlight EXCEPT ![i].local.attempt = @ + 1, ![i].at = "readContract"]
  /\ NothingReturned
  /\ UNCHANGED <<approvedSourceCache, accountBalancesPerToken, accountTransfers, reports,
                 transfers, liquidities, pc, nEvents, lp3TrackList, output, locals>>

\* a processTransfer whose lookup has returned resumes and runs to its end
ResumeProcessTransfer(i) ==
  /\ pc # "failed"
  /\ i \in 1..Len(inFlight)
  /\ inFlight[i].op = "processTransfer"
  /\ inFlight[i].at = "isApprovedSource"
  /\ LET call == inFlight[i]
         r == processTransferAfterLookup(accountBalancesPerToken, accountTransfers,
                                         call.arg, call.local.isApproved)
     IN /\ accountBalancesPerToken' = r.ledger
        /\ accountTransfers' = r.log
        /\ Returned("processTransfer", call.arg, call.local.isApproved, r.err,
                    call.local.rpc, call.local.script)
  /\ inFlight' = RemoveAt(inFlight, i)
  /\ nEvents' = nEvents + 1
  /\ UNCHANGED <<approvedSourceCache, reports, transfers, liquidities, lp3TrackList,
                 output, locals>>

\* processLiquidityPositions(liquidityChangeEvent): the method has no await
\* and runs to its end when it is called
CallProcessLiquidityPositions(liquidityChangeEvent) ==
  /\ pc = "api"
  /\ nEvents + Len(inFlight) < MaxEvents
  /\ LET r == processLiquidityPositions(accountBalancesPerToken, liquidityChangeEvent)
     IN /\ accountBalancesPerToken' = r.ledger
        /\ Returned("processLiquidityPositions", liquidityChangeEvent, <<>>, r.err, 0, <<>>)
  /\ nEvents' = nEvents + 1
  /\ UNCHANGED <<approvedSourceCache, accountTransfers, reports, transfers,
                 liquidities, lp3TrackList, output, inFlight, locals>>

\* a getEligibleBalances that creates a ledger entry for every reporter it
\* looks up
CallGetEligibleBalancesInitialising ==
  /\ pc = "api"
  /\ inFlight' = Append(inFlight,
                        Pending("getEligibleBalances", <<>>, "getUniqueAddresses",
                                [allAddresses |->
                                   getUniqueAddresses(accountBalancesPerToken, reports)]))
  /\ accountBalancesPerToken' =
       [token \in DOMAIN accountBalancesPerToken |->
          Built([account \in DOMAIN accountBalancesPerToken[token]
                              \cup {toLowerCase(reports[k].reporter) :
                                      k \in 1..Len(reports)} |->
                   EntryOrZeroBalance(accountBalancesPerToken[token], account)])]
  /\ NothingReturned
  /\ UNCHANGED <<approvedSourceCache, accountTransfers, reports, transfers,
                 liquidities, pc, nEvents, lp3TrackList, output, locals>>

\* getEligibleBalances() is called: it runs to
\* `await this.getUniqueAddresses()`, the addresses being collected from the
\* ledger as it is now
CallGetEligibleBalances ==
  /\ pc = "api"
  /\ inFlight' = Append(inFlight,
                        Pending("getEligibleBalances", <<>>, "getUniqueAddresses",
                                [allAddresses |->
                                   getUniqueAddresses(accountBalancesPerToken, reports)]))
  /\ NothingReturned
  /\ UNCHANGED <<approvedSourceCache, accountBalancesPerToken, accountTransfers,
                 reports, transfers, liquidities, pc, nEvents, lp3TrackList, output,
                 locals>>

\* calculateRewards(rewardPool) is called: it runs to
\* `await this.getEligibleBalances()`, which runs to its own await
CallCalculateRewards(rewardPool) ==
  /\ pc = "api"
  /\ inFlight' = Append(inFlight,
                        Pending("calculateRewards", rewardPool, "getUniqueAddresses",
                                [allAddresses |->
                                   getUniqueAddresses(accountBalancesPerToken, reports)]))
  /\ NothingReturned
  /\ UNCHANGED <<approvedSourceCache, accountBalancesPerToken, accountTransfers,
                 reports, transfers, liquidities, pc, nEvents, lp3TrackList, output,
                 locals>>

\* a getEligibleBalances suspended on getUniqueAddresses resumes and runs to
\* its end, reading the ledger as it is now.  Called by itself it returns to
\* its caller; called by calculateRewards it leaves that method suspended on
\* it.
ResumeGetEligibleBalances(i) ==
  /\ pc # "failed"
  /\ i \in 1..Len(inFlight)
  /\ inFlight[i].at = "getUniqueAddresses"
  /\ LET call == inFlight[i]
         balances == getEligibleBalancesAfterAwait(call.local.allAddresses,
                                                   accountBalancesPerToken, reports)
     IN IF call.op = "getEligibleBalances"
        THEN /\ inFlight' = RemoveAt(inFlight, i)
             /\ Returned("getEligibleBalances", <<>>, balances, "", 0, <<>>)
        ELSE /\ inFlight' = [inFlight EXCEPT ![i] =
                               Pending(call.op, call.arg, "getEligibleBalances",
                                       [balances |-> balances])]
             /\ NothingReturned
             /\ pc' = pc
  /\ UNCHANGED <<approvedSourceCache, accountBalancesPerToken, accountTransfers,
                 reports, transfers, liquidities, nEvents, lp3TrackList, output, locals>>

\* a calculateRewards whose getEligibleBalances has returned resumes and runs
\* to its end
ResumeCalculateRewards(i) ==
  /\ pc # "failed"
  /\ i \in 1..Len(inFlight)
  /\ inFlight[i].op = "calculateRewards"
  /\ inFlight[i].at = "getEligibleBalances"
  /\ LET call == inFlight[i]
         r == calculateRewardsAfterAwait(call.local.balances, call.arg)
     IN Returned("calculateRewards", call.arg, r.rewards, r.err, 0, <<>>)
  /\ inFlight' = RemoveAt(inFlight, i)
  /\ UNCHANGED <<approvedSourceCache, accountBalancesPerToken, accountTransfers,
                 reports, transfers, liquidities, nEvents, lp3TrackList, output, locals>>

\* the caller awaits every call: it makes the next one when the one before
\* has returned
Awaited == inFlight = <<>>

\* the ledger methods, called in any order and awaited.  (No lookup of
\* TransferScripts meets a transient failure: the backoff is a step of
\* ApprovalSpec and AsyncSpec.)
Next ==
  \/ /\ Awaited
     /\ \E transfer \in Transfers, script \in TransferScripts :
          CallProcessTransfer(transfer, script)
  \/ \E i \in 1..Len(inFlight) : ReadContractSettles(i)
  \/ \E i \in 1..Len(inFlight) : ResumeProcessTransfer(i)
  \/ /\ Awaited
     /\ \E liquidityChangeEvent \in LiquidityChanges :
          CallProcessLiquidityPositions(liquidityChangeEvent)

Spec == Init /\ [][Next]_vars

\* the approval resolver alone
ApprovalNext ==
  \/ /\ Awaited
     /\ \E source \in SourceAddresses, script \in RpcScripts :
          CallIsApprovedSource(source, script)
  \/ \E i \in 1..Len(inFlight) : ReadContractSettles(i)
  \/ \E i \in 1..Len(inFlight) : BackoffElapses(i)

ApprovalSpec == Init /\ [][ApprovalNext]_vars

\* ------------------------------------------------------------------------
\* Eligibility and reward allocation over the ledgers a run can leave
\* ------------------------------------------------------------------------
\* the entry of an account whose balance was s1 at the first snapshot block
\* and s2 at the second: s1 credited by the router up to snapshot1, then the
\* difference credited or sent away before snapshot2
SnapshotEntry(s1, s2) ==
  [transfersInFromApproved |-> IF s2 > s1 THEN s2 ELSE s1,
   transfersOut |-> IF s1 > s2 THEN s1 - s2 ELSE 0,
   netBalanceAtSnapshot1 |-> s1, netBalanceAtSnapshot2 |-> s2,
   currentNetBalance |-> s2]

\* the snapshot balances sampled: nothing held, a holding that grows between
\* the snapshots, one that is kept, one that is sent away
SnapshotPairs == {<<0, 0>>, <<5, 10>>, <<10, 10>>, <<10, 0>>}

SnapshotEntries == {SnapshotEntry(p[1], p[2]) : p \in SnapshotPairs}

\* the maps over a set of accounts, each account absent or holding an entry
AccountMaps(accounts) ==
  UNION {[present -> SnapshotEntries] : present \in SUBSET accounts}

RewardInit ==
  /\ pc = "api"
  /\ approvedSourceCache = EmptyMap
  /\ accountBalancesPerToken \in [TokenKeys -> AccountMaps(ReportAddresses)]
  /\ accountTransfers = EmptyMap
  /\ reports \in ReportLists
  /\ transfers = <<>>
  /\ liquidities = <<>>
  /\ nEvents = 0
  /\ lastOp = "constructor"
  /\ lastArg = reports
  /\ lastRet = <<>>
  /\ lastErr = ""
  /\ lastRpc = 0
  /\ lastScript = <<>>
  /\ lp3TrackList = EmptyTrackList
  /\ output = <<>>
  /\ inFlight = <<>>
  /\ locals = <<>>

RewardNext ==
  \/ Awaited /\ CallGetEligibleBalances
  \/ Awaited /\ \E rewardPool \in Pools : CallCalculateRewards(rewardPool)
  \/ \E i \in 1..Len(inFlight) : ResumeGetEligibleBalances(i)
  \/ \E i \in 1..Len(inFlight) : ResumeCalculateRewards(i)

RewardSpec == RewardInit /\ [][RewardNext]_vars

\* ------------------------------------------------------------------------
\* The driver (index.ts main): every transfer of transfers.dat, then every
\* liquidity change of liquidity.dat, each file in ascending block order
\* ------------------------------------------------------------------------
DriverInit ==
  /\ pc = "transfers"
  /\ Constructed(<<>>)

InBlockOrder(records, record) ==
  IF Len(records) = 0 THEN TRUE
  ELSE records[Len(records)].blockNumber <= record.blockNumber

\* a loop that calls processTransfer for the next record without waiting for
\* the calls it has made
DriverProcessTransferNotAwaited(transfer, script) ==
  /\ pc = "transfers"
  /\ Len(transfers) + Len(liquidities) < MaxDriverEvents
  /\ InBlockOrder(transfers, transfer)
  /\ LET s == LookupStart(approvedSourceCache, transfer.from)
     IN /\ approvedSourceCache' = s.cache
        /\ inFlight' = Append(inFlight,
                              Pending("processTransfer", transfer,
                                      IF s.at = "return" THEN "isApprovedSource" ELSE s.at,
                                      LookupLocals(script, 0, 0, s.isApproved)))
  /\ transfers' = Append(transfers, transfer)
  /\ NothingReturned
  /\ UNCHANGED <<accountBalancesPerToken, accountTransfers, reports, liquidities, pc,
                 nEvents, lp3TrackList, output, locals>>

\* for (const transfer of transfers) { await processor.processTransfer(transfer) }:
\* the next call is made when the one before has returned; it runs to the
\* first await of its lookup
DriverProcessTransfer(transfer, script) ==
  /\ pc = "transfers"
  /\ inFlight = <<>>
  /\ Len(transfers) + Len(liquidities) < MaxDriverEvents
  /\ InBlockOrder(transfers, transfer)
  /\ LET s == LookupStart(approvedSourceCache, transfer.from)
     IN /\ approvedSourceCache' = s.cache
        /\ inFlight' = Append(inFlight,
                              Pending("processTransfer", transfer,
                                      IF s.at = "return" THEN "isApprovedSource" ELSE s.at,
                                      LookupLocals(script, 0, 0, s.isApproved)))
  /\ transfers' = Append(transfers, transfer)
  /\ NothingReturned
  /\ UNCHANGED <<accountBalancesPerToken, accountTransfers, reports, liquidities, pc,
                 nEvents, lp3TrackList, output, locals>>

\* the loop over the transfers ends when its last call has returned
DriverEndTransfers ==
  /\ pc = "transfers"
  /\ inFlight = <<>>
  /\ pc' = "liquidity"
  /\ UNCHANGED <<approvedSourceCache, accountBalancesPerToken, accountTransfers, reports,
                 transfers, liquidities, nEvents, lastOp, lastArg, lastRet, lastErr,
                 lastRpc, lastScript, lp3TrackList, output, inFlight, locals>>

\* await processor.processLiquidityPositions(liquidity): the method has no
\* await and runs to its end when it is called
DriverProcessLiquidityPositions(liquidityChangeEvent) ==
  /\ pc = "liquidity"
  /\ inFlight = <<>>
  /\ Len(transfers) + Len(liquidities) < MaxDriverEvents
  /\ InBlockOrder(liquidities, liquidityChangeEvent)
  /\ LET r == processLiquidityPositions(accountBalancesPerToken, liquidityChangeEvent)
     IN /\ accountBalancesPerToken' = r.ledger
        /\ Returned("processLiquidityPositions", liquidityChangeEvent, <<>>, r.err, 0, <<>>)
  /\ liquidities' = Append(liquidities, liquidityChangeEvent)
  /\ nEvents' = nEvents + 1
  /\ UNCHANGED <<approvedSourceCache, accountTransfers, reports, transfers,
                 lp3TrackList, output, inFlight, locals>>

DriverEndLiquidity ==
  /\ pc = "liquidity"
  /\ inFlight = <<>>
  /\ pc' = "lpRange"
  /\ UNCHANGED <<approvedSourceCache, accountBalancesPerToken, accountTransfers, reports,
                 transfers, liquidities, nEvents, lastOp, lastArg, lastRet, lastErr,
                 lastRpc, lastScript, lp3TrackList, output, inFlight, locals>>

DriverNext ==
  \/ \E transfer \in Transfers, script \in TransferScripts :
       DriverProcessTransfer(transfer, script)
  \/ \E i \in 1..Len(inFlight) : ReadContractSettles(i)
  \/ \E i \in 1..Len(inFlight) : ResumeProcessTransfer(i)
  \/ DriverEndTransfers
  \/ \E liquidityChangeEvent \in LiquidityChanges :
       DriverProcessLiquidityPositions(liquidityChangeEvent)
  \/ DriverEndLiquidity

DriverSpec == DriverInit /\ [][DriverNext]_vars

\* ------------------------------------------------------------------------
\* Properties of eligibility and reward allocation (RewardSpec)
\* ------------------------------------------------------------------------
\* the reward entries of a result, as (token, address) pairs
RewardEntries(rewards) ==
  {<<token, address>> : token \in DOMAIN rewards, address \in ReportAddresses}
    \cap UNION {{<<token, address>> : address \in DOMAIN rewards[token]} :
                  token \in DOMAIN rewards}

RewardSum(rewards) ==
  SumOver(DOMAIN rewards,
          [token \in DOMAIN rewards |->
             SumOver(DOMAIN rewards[token], rewards[token])])

FieldSum(userBalances, field) ==
  SumOver(DOMAIN userBalances,
          [a \in DOMAIN userBalances |->
             CASE field = "average" -> userBalances[a].average
               [] field = "penalty" -> userBalances[a].penalty
               [] field = "bounty"  -> userBalances[a].bounty
               [] field = "final"   -> userBalances[a].final])

\* C1: whatever the ledger, the report list and the pool, the rewards returned
\* by calculateRewards sum to at most the pool and to at least the pool minus
\* the number K of (token, account) entries returned.  (Stated for the runs
\* that have something to distribute: when no token has eligible balance the
\* result is empty and nothing of the pool is allocated.)
C1_RewardSumWithinPool ==
  (/\ lastOp = "calculateRewards"
   /\ getTokensWithBalance(getEligibleBalances(accountBalancesPerToken, reports)) # {}) =>
    /\ lastErr = ""
    /\ RewardSum(lastRet) <= lastArg
    /\ RewardSum(lastRet) >= lastArg - Cardinality(RewardEntries(lastRet))

\* C3: in the result of getEligibleBalances every summary has
\* final = average - penalty + bounty, and per token the finals sum to the
\* averages minus the penalties plus the bounties.
C3_FinalIsAverageMinusPenaltyPlusBounty ==
  lastOp = "getEligibleBalances" =>
    \A token \in DOMAIN lastRet :
      /\ \A address \in DOMAIN lastRet[token] :
           lastRet[token][address].final =
             lastRet[token][address].average - lastRet[token][address].penalty
               + lastRet[token][address].bounty
      /\ FieldSum(lastRet[token], "final") =
           FieldSum(lastRet[token], "average") - FieldSum(lastRet[token], "penalty")
             + FieldSum(lastRet[token], "bounty")

\* a result in which one address carries a penalty and another a bounty
C3_Witness ==
  /\ lastOp = "getEligibleBalances"
  /\ \E token \in DOMAIN lastRet :
       /\ \E address \in DOMAIN lastRet[token] : lastRet[token][address].penalty > 0
       /\ \E address \in DOMAIN lastRet[token] :
            /\ lastRet[token][address].bounty > 0
            /\ lastRet[token][address].average > 0

\* C7: whatever the report list, no summary has a penalty above its average,
\* and no final balance is negative.
C7_PenaltyNeverExceedsAverage ==
  lastOp = "getEligibleBalances" =>
    \A token \in DOMAIN lastRet : \A address \in DOMAIN lastRet[token] :
      /\ lastRet[token][address].penalty <= lastRet[token][address].average
      /\ lastRet[token][address].final >= 0

\* C8: calculateRewards never divides by zero.
C8_NoDivisionByZero ==
  lastOp = "calculateRewards" => lastErr # DivisionByZero

\* ------------------------------------------------------------------------
\* Properties of the ledger methods (Spec)
\* ------------------------------------------------------------------------
Max0(x) == IF x < 0 THEN 0 ELSE x

\* the entry of an account in a token's map, zeroed when there is none
EntryOrZero(accountBalances, account) ==
  IF account \in DOMAIN accountBalances THEN accountBalances[account] ELSE ZeroBalance

\* the slots of an entry that an event of the given block writes hold the
\* entry's current net balance
OpenSlotsHoldCurrent(balance, blockNumber) ==
  /\ blockNumber <= snapshot1 => balance.netBalanceAtSnapshot1 = balance.currentNetBalance
  /\ blockNumber <= snapshot2 => balance.netBalanceAtSnapshot2 = balance.currentNetBalance

\* C4: a processTransfer whose sender is not approved leaves the receiver
\* (when it is not the sender) as it was: transfersInFromApproved,
\* currentNetBalance and both snapshot slots keep their values, the entry
\* being at most created zeroed.
C4_UnapprovedTransferLeavesReceiver ==
  [][(/\ lastOp' = "processTransfer"
      /\ lastRet' = FALSE
      /\ lastArg'.to # lastArg'.from)
     => IF lastArg'.tokenAddress \in DOMAIN accountBalancesPerToken
        THEN LET before == EntryOrZero(accountBalancesPerToken[lastArg'.tokenAddress],
                                       lastArg'.to)
                 after == accountBalancesPerToken'[lastArg'.tokenAddress][lastArg'.to]
             IN /\ after.transfersInFromApproved = before.transfersInFromApproved
                /\ after.currentNetBalance = before.currentNetBalance
                /\ after.netBalanceAtSnapshot1 = before.netBalanceAtSnapshot1
                /\ after.netBalanceAtSnapshot2 = before.netBalanceAtSnapshot2
        ELSE accountBalancesPerToken' = accountBalancesPerToken]_vars

\* an unapproved transfer has been applied to a receiver that holds a balance
\* credited earlier by an approved source
C4_Witness ==
  /\ lastOp = "processTransfer"
  /\ lastRet = FALSE
  /\ lastErr = ""
  /\ lastArg.to # lastArg.from
  /\ accountBalancesPerToken[lastArg.tokenAddress][lastArg.to].transfersInFromApproved > 0
  /\ accountBalancesPerToken[lastArg.tokenAddress][lastArg.to].netBalanceAtSnapshot2 > 0

\* C5: after a processTransfer the sender, and the receiver when the sender
\* is approved, has currentNetBalance = max(0, transfersInFromApproved -
\* transfersOut), the slots the call wrote hold that value, and no entry of
\* the ledger ever holds a negative currentNetBalance or snapshot slot.
C5_TransferBalancesClamped ==
  /\ (lastOp = "processTransfer" /\ lastErr = "") =>
       LET accountBalances == accountBalancesPerToken[lastArg.tokenAddress]
           Clamped(balance) ==
             /\ balance.currentNetBalance =
                  Max0(balance.transfersInFromApproved - balance.transfersOut)
             /\ OpenSlotsHoldCurrent(balance, lastArg.blockNumber)
       IN /\ Clamped(accountBalances[lastArg.from])
          /\ lastRet => Clamped(accountBalances[lastArg.to])
  /\ \A token \in DOMAIN accountBalancesPerToken :
       \A account \in DOMAIN accountBalancesPerToken[token] :
         /\ accountBalancesPerToken[token][account].currentNetBalance >= 0
         /\ accountBalancesPerToken[token][account].netBalanceAtSnapshot1 >= 0
         /\ accountBalancesPerToken[token][account].netBalanceAtSnapshot2 >= 0

\* a sender that has sent more than it received from approved sources, at a
\* block that is open for both snapshots
C5_Witness ==
  /\ lastOp = "processTransfer"
  /\ lastErr = ""
  /\ lastArg.blockNumber <= snapshot1
  /\ LET sender == accountBalancesPerToken[lastArg.tokenAddress][lastArg.from]
     IN /\ sender.transfersInFromApproved > 0
        /\ sender.transfersOut > sender.transfersInFromApproved
        /\ sender.currentNetBalance = 0

\* C6: processLiquidityPositions adds the signed change to the
\* owner's currentNetBalance without a floor at zero and writes that value to
\* the slots whose boundary is at or after the event's block.
C6_LiquidityNotClamped ==
  [][(lastOp' = "processLiquidityPositions" /\ lastErr' = "")
     => LET before == EntryOrZero(accountBalancesPerToken[lastArg'.tokenAddress],
                                  lastArg'.owner)
            after == accountBalancesPerToken'[lastArg'.tokenAddress][lastArg'.owner]
        IN /\ after.currentNetBalance =
                before.currentNetBalance + BigInt(lastArg'.depositedBalanceChange)
           /\ OpenSlotsHoldCurrent(after, lastArg'.blockNumber)]_vars

\* C9: processTransfer and processLiquidityPositions called with a token that
\* is not configured return without an error and leave the processor as it
\* was.
C9_UnconfiguredTokenSkipped ==
  [][/\ (/\ lastOp' \in {"processTransfer", "processLiquidityPositions"}
         /\ lastArg'.tokenAddress \notin TokenKeys)
        => /\ lastErr' = ""
           /\ approvedSourceCache' = approvedSourceCache
           /\ accountBalancesPerToken' = accountBalancesPerToken
           /\ accountTransfers' = accountTransfers
     /\ (\E i \in 1..Len(inFlight') :
           /\ inFlight'[i].op = "processTransfer"
           /\ inFlight'[i].arg.tokenAddress \notin TokenKeys)
        => approvedSourceCache' = approvedSourceCache]_vars

\* ------------------------------------------------------------------------
\* Properties of the approval cache (ApprovalSpec)
\* ------------------------------------------------------------------------
\* C10: once isApprovedSource has answered for an address, the answer is in
\* the cache under the lower-cased address; a later call for that address in
\* any letter case returns the cached value and makes no RPC call, whatever
\* the RPC would answer; no call removes or changes a cached entry.
C10_CacheIsStable ==
  [][/\ \A source \in DOMAIN approvedSourceCache :
          /\ source \in DOMAIN approvedSourceCache'
          /\ approvedSourceCache'[source] = approvedSourceCache[source]
     /\ lastOp' = "isApprovedSource"
        => LET key == toLowerCase(lastArg')
           IN /\ key \in DOMAIN approvedSourceCache =>
                   /\ lastRet' = approvedSourceCache[key]
                   /\ lastRpc' = 0
              /\ key \in DOMAIN approvedSourceCache'
              /\ approvedSourceCache'[key] = lastRet']_vars

\* a pool approved through its factory is asked for again, in mixed case, and
\* answered from the cache
C10_Witness ==
  /\ lastOp = "isApprovedSource"
  /\ lastArg = "0xPool"
  /\ lastRet = TRUE
  /\ lastRpc = 0
  /\ nEvents >= 2

\* ------------------------------------------------------------------------
\* Properties of the driver (DriverSpec)
\* ------------------------------------------------------------------------
\* the two input files merged in ascending block order (a transfer before a
\* liquidity change of the same block)
RECURSIVE MergedEvents(_, _)
MergedEvents(transferList, liquidityList) ==
  IF Len(transferList) = 0
  THEN [i \in 1..Len(liquidityList) |-> [kind |-> "liquidity", record |-> liquidityList[i]]]
  ELSE IF Len(liquidityList) = 0
  THEN [i \in 1..Len(transferList) |-> [kind |-> "transfer", record |-> transferList[i]]]
  ELSE IF Head(transferList).blockNumber <= Head(liquidityList).blockNumber
  THEN <<[kind |-> "transfer", record |-> Head(transferList)]>>
         \o MergedEvents(Tail(transferList), liquidityList)
  ELSE <<[kind |-> "liquidity", record |-> Head(liquidityList)]>>
         \o MergedEvents(transferList, Tail(liquidityList))

\* the ledger after the events of a list, applied in the list's order with
\* the approvals of the given cache
RECURSIVE LedgerAfter(_, _, _)
LedgerAfter(cache, ledger, events) ==
  IF Len(events) = 0 THEN ledger
  ELSE LET event == Head(events)
           next == IF event.kind = "transfer"
                   THEN processTransfer(cache, ledger, EmptyMap, event.record,
                                        RpcScript(0, RpcError("execution reverted"))).ledger
                   ELSE processLiquidityPositions(ledger, event.record).ledger
       IN LedgerAfter(cache, next, Tail(events))

\* the balance an account holds after exactly the events of the run with
\* blockNumber <= boundary, merged in ascending block order
BalanceAtBlock(token, account, boundary) ==
  LET AtOrBefore(record) == record.blockNumber <= boundary
      ledger == LedgerAfter(approvedSourceCache,
                            [t \in TokenKeys |-> EmptyMap],
                            MergedEvents(SelectSeq(transfers, AtOrBefore),
                                         SelectSeq(liquidities, AtOrBefore)))
  IN EntryOrZero(ledger[token], account).currentNetBalance

\* C2: once the driver has applied every transfer and every liquidity change,
\* each snapshot slot of each (token, account) holds the balance the account
\* has after exactly the events with blockNumber <= that snapshot, merged in
\* ascending block order.
C2_SlotsHoldBalanceAtSnapshot ==
  pc = "lpRange" =>
    \A token \in DOMAIN accountBalancesPerToken :
      \A account \in DOMAIN accountBalancesPerToken[token] :
        /\ accountBalancesPerToken[token][account].netBalanceAtSnapshot1 =
             BalanceAtBlock(token, account, snapshot1)
        /\ accountBalancesPerToken[token][account].netBalanceAtSnapshot2 =
             BalanceAtBlock(token, account, snapshot2)

\* ------------------------------------------------------------------------
\* Properties of the approval lookup (ApprovalSpec)
\* ------------------------------------------------------------------------
\* the call just made found no cache entry for its address
LookupUncached == toLowerCase(lastArg') \notin DOMAIN approvedSourceCache

\* the address of the call just made is in the static allow-list
LookupListed ==
  \E addr \in REWARDS_SOURCES : toLowerCase(addr) = toLowerCase(lastArg')

\* the three failure signatures of a contract without factory()
NoFactorySignatures == {"returned no data (\"0x\")", "reverted", "invalid parameters"}

\* the message carries one of the signatures
HasNoFactorySignature(msg) ==
  \E signature \in NoFactorySignatures : Includes(msg, signature)

\* an attempt's outcome is a failure that carries no no-factory signature
IsTransientOutcome(out) ==
  out.kind = "error" /\ ~HasNoFactorySignature(out.shortMessage)

\* the number of transient failures a script starts with
RECURSIVE LeadingTransients(_, _)
LeadingTransients(script, i) ==
  IF i > Len(script) THEN 0
  ELSE IF IsTransientOutcome(script[i]) THEN 1 + LeadingTransients(script, i + 1)
  ELSE 0

\* C11: whatever the RPC answers, isApprovedSource makes at most `retries`
\* attempts and returns a boolean without an error; when every attempt fails
\* with a transient error it returns false after `retries` attempts and caches
\* false.
C11_LookupTerminatesWithoutError ==
  [][lastOp' = "isApprovedSource"
     => /\ lastRpc' <= DefaultRetries
        /\ lastRet' \in BOOLEAN
        /\ lastErr' = ""
        /\ (/\ LookupUncached
            /\ ~LookupListed
            /\ \A i \in 1..DefaultRetries : IsTransientOutcome(lastScript'[i]))
           => /\ lastRet' = FALSE
              /\ lastRpc' = DefaultRetries
              /\ toLowerCase(lastArg') \in DOMAIN approvedSourceCache'
              /\ approvedSourceCache'[toLowerCase(lastArg')] = FALSE]_vars

\* a lookup has used up all its attempts on transient failures
C11_Witness ==
  /\ lastOp = "isApprovedSource"
  /\ \A i \in 1..DefaultRetries : IsTransientOutcome(lastScript[i])
  /\ lastRpc = DefaultRetries
  /\ lastRet = FALSE
  /\ approvedSourceCache[toLowerCase(lastArg)] = FALSE

\* C12: an attempt that fails with a no-factory signature ends the lookup at
\* once with false, cached, whatever attempts remain; a transient failure on
\* an attempt that is not the last is followed by another attempt.
C12_NoFactoryStopsTransientRetries ==
  [][(lastOp' = "isApprovedSource" /\ LookupUncached /\ ~LookupListed)
     => LET k == LeadingTransients(lastScript', 1)
        IN /\ lastRpc' = IF k >= DefaultRetries THEN DefaultRetries ELSE k + 1
           /\ (/\ k < DefaultRetries
               /\ lastScript'[k + 1].kind = "error"
               /\ HasNoFactorySignature(lastScript'[k + 1].shortMessage))
              => /\ lastRet' = FALSE
                 /\ approvedSourceCache'[toLowerCase(lastArg')] = FALSE]_vars

\* a lookup retried two transient failures and stopped at a revert on the
\* third attempt
C12_Witness ==
  /\ lastOp = "isApprovedSource"
  /\ LeadingTransients(lastScript, 1) = 2
  /\ lastScript[3].shortMessage = "The contract function \"factory\" reverted."
  /\ lastRpc = 3
  /\ lastRet = FALSE

\* C13: an uncached address of the static allow-list (compared without
\* regard to letter case) is answered true, cached true, without an RPC call;
\* an uncached address outside it whose factory() call succeeds is answered
\* true exactly when the returned factory is in FACTORIES (without regard to
\* letter case).
C13_AllowListAndFactory ==
  [][(lastOp' = "isApprovedSource" /\ LookupUncached)
     => IF LookupListed
        THEN /\ lastRet' = TRUE
             /\ lastRpc' = 0
             /\ approvedSourceCache'[toLowerCase(lastArg')] = TRUE
        ELSE LET k == LeadingTransients(lastScript', 1)
             IN (k < DefaultRetries /\ lastScript'[k + 1].kind = "return")
                => lastRet' = (\E addr \in FACTORIES :
                                 toLowerCase(addr) = toLowerCase(lastScript'[k + 1].factory))
     ]_vars

\* a pool outside the allow-list has been approved through the factory its
\* factory() call returned, after one transient failure
C13_Witness ==
  /\ lastOp = "isApprovedSource"
  /\ nEvents = 1
  /\ lastArg = "0xPool"
  /\ LeadingTransients(lastScript, 1) = 1
  /\ lastScript[2].kind = "return"
  /\ lastRet = TRUE
  /\ lastRpc = 2

\* ------------------------------------------------------------------------
\* Properties of penalties and bounties (RewardSpec)
\* ------------------------------------------------------------------------
\* the positions of the run's reports that name the address as cheater
ReportsAgainst(address) == {i \in 1..Len(reports) : reports[i].cheater = address}

\* the positions of the run's reports made by the address
ReportsBy(address) == {i \in 1..Len(reports) : reports[i].reporter = address}

\* floor(x * 10 / 100) for x >= 0
TenPercent(x) == (x * 10) \div 100

\* the bounties a token's summaries give for the reports made by an address:
\* ten percent of the average of each cheater that has a summary
BountiesOf(userBalances, address) ==
  SumOver(ReportsBy(address),
          [i \in ReportsBy(address) |->
             IF reports[i].cheater \in DOMAIN userBalances
             THEN TenPercent(userBalances[reports[i].cheater].average)
             ELSE 0])

\* C14 as claimed: a cheater C named in exactly one report {R, C}, R # C, and
\* reporter of none, has penalty = average and final = 0; the report adds
\* floor(average[C] * 10 / 100) to bounty[R]; and final[R] = average[R] +
\* bounty[R].
C14_SingleReport ==
  lastOp = "getEligibleBalances" =>
    \A token \in DOMAIN lastRet :
      \A C \in DOMAIN lastRet[token], R \in DOMAIN lastRet[token] :
        (/\ R # C
         /\ Cardinality(ReportsAgainst(C)) = 1
         /\ \A i \in ReportsAgainst(C) : reports[i].reporter = R
         /\ ReportsBy(C) = {})
        => /\ lastRet[token][C].penalty = lastRet[token][C].average
           /\ lastRet[token][C].final = 0
           /\ lastRet[token][R].bounty = BountiesOf(lastRet[token], R)
           /\ lastRet[token][R].final =
                lastRet[token][R].average + lastRet[token][R].bounty

\* C14 as the code has it: the same, for a reporter R that no report names
\* as cheater.
C14_SingleReportCleanReporter ==
  lastOp = "getEligibleBalances" =>
    \A token \in DOMAIN lastRet :
      \A C \in DOMAIN lastRet[token], R \in DOMAIN lastRet[token] :
        (/\ R # C
         /\ Cardinality(ReportsAgainst(C)) = 1
         /\ \A i \in ReportsAgainst(C) : reports[i].reporter = R
         /\ ReportsBy(C) = {}
         /\ ReportsAgainst(R) = {})
        => /\ lastRet[token][C].penalty = lastRet[token][C].average
           /\ lastRet[token][C].final = 0
           /\ lastRet[token][R].bounty = BountiesOf(lastRet[token], R)
           /\ lastRet[token][R].bounty >= TenPercent(lastRet[token][C].average)
           /\ lastRet[token][R].final =
                lastRet[token][R].average + lastRet[token][R].bounty

\* 0xb has reported 0xa, which holds an average of 10, and holds a balance
\* itself
C14_Witness ==
  /\ lastOp = "getEligibleBalances"
  /\ reports = <<Report("0xb", "0xa")>>
  /\ "0xa" \in DOMAIN lastRet["0xcysflr"]
  /\ lastRet["0xcysflr"]["0xa"].average = 10
  /\ lastRet["0xcysflr"]["0xa"].final = 0
  /\ lastRet["0xcysflr"]["0xb"].average > 0
  /\ lastRet["0xcysflr"]["0xb"].bounty = 1

\* the report list in reverse order
Reversed(reportList) ==
  [i \in 1..Len(reportList) |-> reportList[Len(reportList) + 1 - i]]

\* C15: per token, penalty[C] = k * average[C] with k the number of reports
\* naming C as cheater (a repeated report counted each time), bounty[R] is
\* the sum over R's reports of floor(average[cheater] * 10 / 100), and the
\* result is the same for the reports taken in another order.
C15_PenaltyPerReportBountyPerReport ==
  lastOp = "getEligibleBalances" =>
    /\ \A token \in DOMAIN lastRet :
         \A address \in DOMAIN lastRet[token] :
           /\ lastRet[token][address].penalty =
                Cardinality(ReportsAgainst(address)) * lastRet[token][address].average
           /\ lastRet[token][address].bounty = BountiesOf(lastRet[token], address)
    /\ getEligibleBalances(accountBalancesPerToken, Reversed(reports)) = lastRet

\* 0xa, holding an average of 10, has been reported twice by 0xb
C15_Witness ==
  /\ lastOp = "getEligibleBalances"
  /\ reports = <<Report("0xb", "0xa"), Report("0xb", "0xa")>>
  /\ "0xa" \in DOMAIN lastRet["0xcysflr"]
  /\ lastRet["0xcysflr"]["0xa"].average = 10
  /\ lastRet["0xcysflr"]["0xa"].penalty = 20
  /\ lastRet["0xcysflr"]["0xb"].bounty = 2

\* the addresses with a ledger entry in some token, and the reporters
LedgerAndReporters ==
  UNION {DOMAIN accountBalancesPerToken[token] : token \in DOMAIN accountBalancesPerToken}
    \cup {reports[i].reporter : i \in 1..Len(reports)}

\* the report list without its i-th report
WithoutReport(reportList, i) ==
  [j \in 1..(Len(reportList) - 1) |-> IF j < i THEN reportList[j] ELSE reportList[j + 1]]

\* C16: every token's summary map has the same keys, the addresses with a
\* ledger entry in some token plus the reporters; a reporter without a ledger
\* entry has average 0 and the bounties of its reports; a report whose
\* cheater is in neither group changes nothing in the result.
C16_SummaryKeysAndAbsentParties ==
  lastOp = "getEligibleBalances" =>
    /\ \A token \in DOMAIN lastRet : DOMAIN lastRet[token] = LedgerAndReporters
    /\ \A token \in DOMAIN lastRet :
         \A i \in 1..Len(reports) :
           reports[i].reporter \notin DOMAIN accountBalancesPerToken[token] =>
             /\ lastRet[token][reports[i].reporter].average = 0
             /\ lastRet[token][reports[i].reporter].bounty =
                  BountiesOf(lastRet[token], reports[i].reporter)
    /\ \A i \in 1..Len(reports) :
         reports[i].cheater \notin LedgerAndReporters =>
           LET without == getEligibleBalances(accountBalancesPerToken,
                                              WithoutReport(reports, i))
           IN \A token \in DOMAIN without :
                \A address \in DOMAIN without[token] :
                  without[token][address] = lastRet[token][address]

\* 0xa holds nothing in any token and has reported 0xb: it has a summary with
\* average 0 and a bounty
C16_Witness ==
  /\ lastOp = "getEligibleBalances"
  /\ reports = <<Report("0xa", "0xb")>>
  /\ \A token \in DOMAIN accountBalancesPerToken :
       "0xa" \notin DOMAIN accountBalancesPerToken[token]
  /\ lastRet["0xcysflr"]["0xa"].average = 0
  /\ lastRet["0xcysflr"]["0xa"].bounty = 1
  /\ lastRet["0xcyweth"]["0xa"].bounty = 0

\* ------------------------------------------------------------------------
\* Range corrections of concentrated-liquidity positions (processLpRange) and
\* the end of the driver.  netBalanceAtSnapshots[i] is the ledger's slot of
\* the i-th snapshot.
\* ------------------------------------------------------------------------
snapshots == <<snapshot1, snapshot2>>

\* balance.netBalanceAtSnapshots[i]
SnapshotSlot(balance, i) ==
  IF i = 1 THEN balance.netBalanceAtSnapshot1 ELSE balance.netBalanceAtSnapshot2

\* balance.netBalanceAtSnapshots[i] -= value
DeductFromSlot(balance, i, value) ==
  IF i = 1
  THEN [balance EXCEPT !.netBalanceAtSnapshot1 = @ - value]
  ELSE [balance EXCEPT !.netBalanceAtSnapshot2 = @ - value]

\* the key `token-owner-pool-positionId` of a tracked position
LpId(token, owner, pool, positionId) ==
  [token |-> token, owner |-> owner, pool |-> pool, positionId |-> positionId]

\* a tracked position
LpTrack(value, pool, lowerTick, upperTick) ==
  [value |-> value, pool |-> pool, lowerTick |-> lowerTick, upperTick |-> upperTick]

\* what one getPoolsTick(client, pools, snapshot) call produces: a map from
\* pool to tick, some pools possibly missing, or a failure
OracleFailure == [kind |-> "error", message |-> "Network error", ticks |-> EmptyMap]
OracleTicks(ticks) == [kind |-> "ticks", message |-> "", ticks |-> ticks]

\* a range test that counts a tick on a bound as outside
OutOfRangeBoundsExcluded(tick, lp) == tick <= lp.lowerTick \/ tick >= lp.upperTick

\* the pool's tick is outside [lowerTick, upperTick]
OutOfRange(tick, lp) == tick < lp.lowerTick \/ tick > lp.upperTick

\* a deduction that does not look at the sign of the value
LpDeductionAnyValue(lp, ticks) ==
  IF lp.pool \in DOMAIN ticks /\ OutOfRange(ticks[lp.pool], lp) THEN lp.value ELSE 0

\* what one tracked position takes off its owner's slot, given the ticks of
\* the slot's snapshot
LpDeduction(lp, ticks) ==
  IF lp.value > 0 /\ lp.pool \in DOMAIN ticks /\ OutOfRange(ticks[lp.pool], lp)
  THEN lp.value
  ELSE 0

\* the corrections of one snapshot applied to every account of every token
CorrectSnapshot(ledger, tracked, i, ticks) ==
  [token \in DOMAIN ledger |->
     Built([account \in DOMAIN ledger[token] |->
        LET ids == {id \in DOMAIN tracked : id.token = token /\ id.owner = account}
            total == SumOver(ids, [id \in ids |-> LpDeduction(tracked[id], ticks)])
        IN DeductFromSlot(ledger[token][account], i, total)])]

\* processLpRange: snapshot by snapshot, ask the oracle, then correct
RECURSIVE processLpRange(_, _, _, _)
processLpRange(ledger, trackList, oracle, i) ==
  IF i > Len(snapshots) THEN [ledger |-> ledger, err |-> ""]
  ELSE IF oracle[i].kind = "error" THEN [ledger |-> ledger, err |-> oracle[i].message]
  ELSE processLpRange(CorrectSnapshot(ledger, trackList[i], i, oracle[i].ticks),
                      trackList, oracle, i + 1)

\* the ledger when the driver reaches the range corrections: 0xa and 0xb hold
\* 5 of every token at both snapshots; the blocklist is empty or holds a
\* report of 0xa by 0xb
LpLedger ==
  [token \in TokenKeys |-> Built([account \in ReportAddresses |-> SnapshotEntry(5, 5)])]

\* the positions tracked: one of 0xa in pool 1 with range [2, 3], one of 0xa
\* in pool 2 with range [2, 3], both in cysFLR
LpTrackMaps ==
  {Built([id \in ids |->
            IF id.pool = "0xpool1" THEN LpTrack(v, "0xpool1", 2, 3)
            ELSE LpTrack(1, "0xpool2", 2, 3)]) :
     ids \in SUBSET {LpId("0xcysflr", "0xa", "0xpool1", 1),
                     LpId("0xcysflr", "0xa", "0xpool2", 2)},
     v \in {2, 0, 0 - 1}}

LpTrackLists == {<<first, second>> : first \in LpTrackMaps, second \in LpTrackMaps}

\* the oracle's answers sampled: pool 1 missing, below, on either bound or
\* above the range; pool 2 missing or below the range
OracleAnswers ==
  {OracleFailure}
    \cup {OracleTicks(Built([pool \in pools |->
                               IF pool = "0xpool1" THEN t ELSE 1])) :
            pools \in SUBSET {"0xpool1", "0xpool2"}, t \in 1..4}

Oracles == {<<first, second>> : first \in OracleAnswers, second \in OracleAnswers}

LpInit ==
  /\ pc = "lpRange"
  /\ approvedSourceCache = EmptyMap
  /\ accountBalancesPerToken = LpLedger
  /\ accountTransfers = EmptyMap
  /\ reports \in {<<>>, <<Report("0xb", "0xa")>>}
  /\ transfers = <<>>
  /\ liquidities = <<>>
  /\ nEvents = 0
  /\ lastOp = "processLiquidityPositions"
  /\ lastArg = <<>>
  /\ lastRet = <<>>
  /\ lastErr = ""
  /\ lastRpc = 0
  /\ lastScript = <<>>
  /\ lp3TrackList \in LpTrackLists
  /\ output = <<>>
  /\ inFlight = <<>>
  /\ locals = <<>>

\* index.ts: await processor.processLpRange().  The method is called: it runs
\* to `await getPoolsTick(...)` for the first snapshot; oracle holds the
\* answers its getPoolsTick calls will get, one per snapshot
DriverProcessLpRange(oracle) ==
  /\ pc = "lpRange"
  /\ inFlight = <<>>
  /\ inFlight' = Append(inFlight, Pending("processLpRange", oracle, "getPoolsTick", [i |-> 1]))
  /\ pc' = "rewards"
  /\ NothingReturned
  /\ UNCHANGED <<approvedSourceCache, accountBalancesPerToken, accountTransfers, reports,
                 transfers, liquidities, nEvents, lp3TrackList, output, locals>>

\* a range correction whose failure does not stop the driver
GetPoolsTickSettlesIgnoringFailure(i) ==
  /\ pc # "failed"
  /\ i \in 1..Len(inFlight)
  /\ inFlight[i].at = "getPoolsTick"
  /\ LET call == inFlight[i]
         k == call.local.i
         answer == call.arg[k]
     IN IF answer.kind = "error"
        THEN /\ inFlight' = RemoveAt(inFlight, i)
             /\ accountBalancesPerToken' = accountBalancesPerToken
             /\ Returned("processLpRange", call.arg, <<>>, "", 0, <<>>)
        ELSE /\ accountBalancesPerToken' =
                  CorrectSnapshot(accountBalancesPerToken, lp3TrackList[k], k, answer.ticks)
             /\ IF k < Len(snapshots)
                THEN /\ inFlight' = [inFlight EXCEPT ![i].local.i = k + 1]
                     /\ NothingReturned
                     /\ pc' = pc
                ELSE /\ inFlight' = RemoveAt(inFlight, i)
                     /\ Returned("processLpRange", call.arg, <<>>, "", 0, <<>>)
  /\ UNCHANGED <<approvedSourceCache, accountTransfers, reports, transfers, liquidities,
                 nEvents, lp3TrackList, output, locals>>

\* the getPoolsTick of a suspended processLpRange settles.  A failure is
\* thrown to the caller; an answer is applied to the slots of its snapshot,
\* and the method goes on to the getPoolsTick of the next snapshot or returns
GetPoolsTickSettles(i) ==
  /\ pc # "failed"
  /\ i \in 1..Len(inFlight)
  /\ inFlight[i].at = "getPoolsTick"
  /\ LET call == inFlight[i]
         k == call.local.i
         answer == call.arg[k]
     IN IF answer.kind = "error"
        THEN /\ inFlight' = RemoveAt(inFlight, i)
             /\ accountBalancesPerToken' = accountBalancesPerToken
             /\ Returned("processLpRange", call.arg, <<>>, answer.message, 0, <<>>)
        ELSE /\ accountBalancesPerToken' =
                  CorrectSnapshot(accountBalancesPerToken, lp3TrackList[k], k, answer.ticks)
             /\ IF k < Len(snapshots)
                THEN /\ inFlight' = [inFlight EXCEPT ![i].local.i = k + 1]
                     /\ NothingReturned
                     /\ pc' = pc
                ELSE /\ inFlight' = RemoveAt(inFlight, i)
                     /\ Returned("processLpRange", call.arg, <<>>, "", 0, <<>>)
  /\ UNCHANGED <<approvedSourceCache, accountTransfers, reports, transfers, liquidities,
                 nEvents, lp3TrackList, output, locals>>

\* ------------------------------------------------------------------------
\* index.ts main, from the eligible balances to the two output files
\* ------------------------------------------------------------------------
\* "output/balances-" + SNAPSHOTS[0] + "-" + SNAPSHOTS[SNAPSHOTS.length - 1] + ".csv"
BalancesFile == "output/balances-1-2.csv"
RewardsFile == "output/rewards-1-2.csv"

\* the error a rejected writeFile carries
WriteFileError == "EACCES: permission denied"

REWARDS_CSV_COLUMN_HEADER_ADDRESS == "recipient address"
REWARDS_CSV_COLUMN_HEADER_REWARD == "amount wei"

\* totalRewardsPerAddress: the rewards of each address summed over the tokens
TotalRewardsPerAddress(rewardsPerToken) ==
  LET tokens == TokenKeys \cap DOMAIN rewardsPerToken
      addresses == UNION {DOMAIN rewardsPerToken[token] : token \in tokens}
  IN Built([address \in addresses |->
        LET holding == {token \in tokens : address \in DOMAIN rewardsPerToken[token]}
        IN SumOver(holding, [token \in holding |-> rewardsPerToken[token][address]])])

\* the sequences that hold every element of a set once
RECURSIVE Orders(_)
Orders(S) ==
  IF S = {} THEN {<<>>}
  ELSE UNION {{<<x>> \o rest : rest \in Orders(S \ {x})} : x \in S}

\* the orders the sort by total rewards, descending, can leave the addresses
\* in.  Addresses of equal total keep the insertion order of the Map, which
\* the maps of the model do not hold: any order of them.
SortedByTotalRewards(totalRewardsPerAddress) ==
  {addresses \in Orders(DOMAIN totalRewardsPerAddress) :
     \A i \in 1..Len(addresses) : \A j \in 1..Len(addresses) :
       i < j => totalRewardsPerAddress[addresses[i]] >= totalRewardsPerAddress[addresses[j]]}

\* Array.prototype.join on strings
RECURSIVE Join(_, _)
Join(strings, separator) ==
  IF strings = <<>> THEN ""
  ELSE IF Len(strings) = 1 THEN strings[1]
  ELSE strings[1] \o separator \o Join(Tail(strings), separator)

\* tokenColumns: the column names of the tokens in the balances file
TokenColumns ==
  Join([t \in 1..Len(CYTOKENS) |->
          LET name == CYTOKENS[t].name
          IN Join([i \in 1..Len(snapshots) |-> name \o "_snapshot" \o ToString(i - 1)], ",")
               \o "," \o name \o "_average," \o name \o "_penalty," \o name \o "_bounty,"
               \o name \o "_final," \o name \o "_rewards"],
       ",")

\* the columns of one token in a row of the balances file
TokenValues(balances, rewardsPerToken, token, address) ==
  LET snapshotsDefault == Join([i \in 1..Len(snapshots) |-> "0"], ",")
  IN IF token \notin DOMAIN balances \/ address \notin DOMAIN balances[token]
     THEN snapshotsDefault \o ",0,0,0,0,0"
     ELSE LET tokenBalance == balances[token][address]
          IN Join(<<ToString(tokenBalance.snapshot1), ToString(tokenBalance.snapshot2),
                    ToString(tokenBalance.average), ToString(tokenBalance.penalty),
                    ToString(tokenBalance.bounty), ToString(tokenBalance.final),
                    ToString(IF token \in DOMAIN rewardsPerToken
                                /\ address \in DOMAIN rewardsPerToken[token]
                             THEN rewardsPerToken[token][address] ELSE 0)>>,
                  ",")

\* balancesOutput.join("\n"): the header, then one row per address in the
\* sorted order
BalancesOutput(balances, rewardsPerToken, totalRewardsPerAddress, addresses) ==
  Join(<<"address," \o TokenColumns \o ",total_rewards">>
         \o [k \in 1..Len(addresses) |->
               addresses[k] \o ","
                 \o Join([t \in 1..Len(CYTOKENS) |->
                            TokenValues(balances, rewardsPerToken,
                                        toLowerCase(CYTOKENS[t].address), addresses[k])],
                         ",")
                 \o "," \o ToString(totalRewardsPerAddress[addresses[k]])],
       "\n")

\* "remove any addresses with no rewards"
WithoutZeroRewards(addresses, totalRewardsPerAddress) ==
  LET rewarded(address) == totalRewardsPerAddress[address] # 0
  IN SelectSeq(addresses, rewarded)

\* rewardsOutput.join("\n"): the header, then one row per address left
RewardsOutput(totalRewardsPerAddress, addresses) ==
  Join(<<REWARDS_CSV_COLUMN_HEADER_ADDRESS \o "," \o REWARDS_CSV_COLUMN_HEADER_REWARD>>
         \o [k \in 1..Len(addresses) |->
               addresses[k] \o "," \o ToString(totalRewardsPerAddress[addresses[k]])],
       "\n")

\* const balances = await processor.getEligibleBalances()
DriverGetEligibleBalances ==
  /\ pc = "rewards"
  /\ inFlight = <<>>
  /\ inFlight' = Append(inFlight,
                        Pending("getEligibleBalances", <<>>, "getUniqueAddresses",
                                [allAddresses |->
                                   getUniqueAddresses(accountBalancesPerToken, reports)]))
  /\ pc' = "calculateRewards"
  /\ NothingReturned
  /\ UNCHANGED <<approvedSourceCache, accountBalancesPerToken, accountTransfers, reports,
                 transfers, liquidities, nEvents, lp3TrackList, output, locals>>

\* main resumes with the balances, logs the totals and calls
\* await processor.calculateRewards(REWARD_POOL), here a pool of the model
DriverCalculateRewards(rewardPool) ==
  /\ pc = "calculateRewards"
  /\ inFlight = <<>>
  /\ locals' = [balances |-> lastRet]
  /\ inFlight' = Append(inFlight,
                        Pending("calculateRewards", rewardPool, "getUniqueAddresses",
                                [allAddresses |->
                                   getUniqueAddresses(accountBalancesPerToken, reports)]))
  /\ pc' = "writeBalances"
  /\ NothingReturned
  /\ UNCHANGED <<approvedSourceCache, accountBalancesPerToken, accountTransfers, reports,
                 transfers, liquidities, nEvents, lp3TrackList, output>>

\* main resumes with the rewards: it sums them per address, sorts the
\* addresses by their total and calls await writeFile(balances file)
DriverWriteBalances ==
  /\ pc = "writeBalances"
  /\ inFlight = <<>>
  /\ LET rewardsPerToken == lastRet
         totalRewardsPerAddress == TotalRewardsPerAddress(rewardsPerToken)
     IN \E addresses \in SortedByTotalRewards(totalRewardsPerAddress) :
          /\ locals' = [balances |-> locals.balances,
                        totalRewardsPerAddress |-> totalRewardsPerAddress,
                        addresses |-> addresses]
          /\ inFlight' = Append(inFlight,
                                Pending("writeFile",
                                        [file |-> BalancesFile,
                                         data |-> BalancesOutput(locals.balances,
                                                                 rewardsPerToken,
                                                                 totalRewardsPerAddress,
                                                                 addresses)],
                                        "writeFile", <<>>))
  /\ pc' = "writeRewards"
  /\ NothingReturned
  /\ UNCHANGED <<approvedSourceCache, accountBalancesPerToken, accountTransfers, reports,
                 transfers, liquidities, nEvents, lp3TrackList, output>>

\* a writeFile settles: the file is written, or the call rejects
WriteFileSettles(i, written) ==
  /\ pc # "failed"
  /\ i \in 1..Len(inFlight)
  /\ inFlight[i].at = "writeFile"
  /\ LET call == inFlight[i]
     IN /\ output' = IF written
                     THEN (call.arg.file :> call.arg.data) @@ output
                     ELSE output
        /\ Returned("writeFile", call.arg, <<>>,
                    IF written THEN "" ELSE WriteFileError, 0, <<>>)
  /\ inFlight' = RemoveAt(inFlight, i)
  /\ UNCHANGED <<approvedSourceCache, accountBalancesPerToken, accountTransfers, reports,
                 transfers, liquidities, nEvents, lp3TrackList, locals>>

\* main resumes: it removes the addresses without rewards and calls
\* await writeFile(rewards file), the last await of main
DriverWriteRewards ==
  /\ pc = "writeRewards"
  /\ inFlight = <<>>
  /\ LET addresses == WithoutZeroRewards(locals.addresses, locals.totalRewardsPerAddress)
     IN /\ locals' = [locals EXCEPT !.addresses = addresses]
        /\ inFlight' = Append(inFlight,
                              Pending("writeFile",
                                      [file |-> RewardsFile,
                                       data |-> RewardsOutput(locals.totalRewardsPerAddress,
                                                              addresses)],
                                      "writeFile", <<>>))
  /\ pc' = "done"
  /\ NothingReturned
  /\ UNCHANGED <<approvedSourceCache, accountBalancesPerToken, accountTransfers, reports,
                 transfers, liquidities, nEvents, lp3TrackList, output>>

LpRangeNext ==
  \/ \E oracle \in Oracles : DriverProcessLpRange(oracle)
  \/ \E i \in 1..Len(inFlight) : GetPoolsTickSettles(i)
  \/ DriverGetEligibleBalances
  \/ \E i \in 1..Len(inFlight) : ResumeGetEligibleBalances(i)
  \/ \E rewardPool \in Pools : DriverCalculateRewards(rewardPool)
  \/ \E i \in 1..Len(inFlight) : ResumeCalculateRewards(i)
  \/ DriverWriteBalances
  \/ \E i \in 1..Len(inFlight), written \in BOOLEAN : WriteFileSettles(i, written)
  \/ DriverWriteRewards

LpRangeSpec == LpInit /\ [][LpRangeNext]_vars

\* ------------------------------------------------------------------------
\* Properties of the range corrections (LpRangeSpec)
\* ------------------------------------------------------------------------
\* the oracle answered for the snapshots 1..i
OracleReached(oracle, i) == \A j \in 1..i : oracle[j].kind = "ticks"

\* the tracked positions of snapshot i that belong to the account and token,
\* hold a positive value and lie in a pool whose returned tick is below
\* lowerTick or above upperTick
PositionsOutOfRange(token, account, i, oracle) ==
  {id \in DOMAIN lp3TrackList[i] :
     /\ id.token = token
     /\ id.owner = account
     /\ lp3TrackList[i][id].value > 0
     /\ OracleReached(oracle, i)
     /\ lp3TrackList[i][id].pool \in DOMAIN oracle[i].ticks
     /\ \/ oracle[i].ticks[lp3TrackList[i][id].pool] < lp3TrackList[i][id].lowerTick
        \/ oracle[i].ticks[lp3TrackList[i][id].pool] > lp3TrackList[i][id].upperTick}

\* C17: processLpRange takes a tracked position's value off the owner's slot
\* of snapshot i exactly when the value is positive and the tick returned for
\* snapshot i is below lowerTick or above upperTick (a tick on a bound is in
\* range); every other slot, account and token keeps its value.  (The ledger
\* the call starts from is LpLedger; the call takes a step per snapshot.)
C17_RangeCorrectionExact ==
  lastOp = "processLpRange"
    => /\ DOMAIN accountBalancesPerToken = DOMAIN LpLedger
       /\ \A token \in DOMAIN LpLedger :
            /\ DOMAIN accountBalancesPerToken[token] = DOMAIN LpLedger[token]
            /\ \A account \in DOMAIN LpLedger[token] :
                 /\ \A i \in 1..Len(snapshots) :
                      LET out == PositionsOutOfRange(token, account, i, lastArg)
                      IN SnapshotSlot(accountBalancesPerToken[token][account], i) =
                           SnapshotSlot(LpLedger[token][account], i)
                             - SumOver(out, [id \in out |-> lp3TrackList[i][id].value])
                 /\ accountBalancesPerToken[token][account].currentNetBalance =
                      LpLedger[token][account].currentNetBalance
                 /\ accountBalancesPerToken[token][account].transfersInFromApproved =
                      LpLedger[token][account].transfersInFromApproved
                 /\ accountBalancesPerToken[token][account].transfersOut =
                      LpLedger[token][account].transfersOut

\* the position of 0xa in pool 1, worth 2, was out of range at the first
\* snapshot and on the upper bound at the second
C17_Witness ==
  /\ lastOp = "processLpRange"
  /\ lastErr = ""
  /\ LpId("0xcysflr", "0xa", "0xpool1", 1) \in DOMAIN lp3TrackList[1]
  /\ LpId("0xcysflr", "0xa", "0xpool1", 1) \in DOMAIN lp3TrackList[2]
  /\ lp3TrackList[2][LpId("0xcysflr", "0xa", "0xpool1", 1)].value = 2
  /\ "0xpool1" \in DOMAIN lastArg[2].ticks
  /\ lastArg[2].ticks["0xpool1"] = 3
  /\ accountBalancesPerToken["0xcysflr"]["0xa"].netBalanceAtSnapshot1 = 3
  /\ accountBalancesPerToken["0xcysflr"]["0xa"].netBalanceAtSnapshot2 = 5
  /\ accountBalancesPerToken["0xcysflr"]["0xb"].netBalanceAtSnapshot1 = 5

\* the tracked positions without the position id of snapshot i
TrackListWithout(i, id) ==
  [j \in 1..Len(lp3TrackList) |->
     IF j = i
     THEN Built([other \in DOMAIN lp3TrackList[j] \ {id} |-> lp3TrackList[j][other]])
     ELSE lp3TrackList[j]]

\* C18: a tracked position with a zero or negative value, or in a pool for
\* which the oracle's answer has no tick, raises no error and changes no
\* slot: the call ends as it would without that position, and an error comes
\* from a failed oracle call only.
C18_SkippedPositions ==
  lastOp = "processLpRange"
    => /\ lastErr # "" => \E i \in 1..Len(snapshots) : lastArg[i].kind = "error"
       /\ \A i \in 1..Len(snapshots) :
            \A id \in DOMAIN lp3TrackList[i] :
              (\/ lp3TrackList[i][id].value <= 0
               \/ /\ lastArg[i].kind = "ticks"
                  /\ lp3TrackList[i][id].pool \notin DOMAIN lastArg[i].ticks)
              => LET without == processLpRange(LpLedger, TrackListWithout(i, id), lastArg, 1)
                 IN /\ accountBalancesPerToken = without.ledger
                    /\ lastErr = without.err
       /\ (\A i \in 1..Len(snapshots) :
             /\ lastArg[i].kind = "ticks"
             /\ \A id \in DOMAIN lp3TrackList[i] :
                  \/ lp3TrackList[i][id].value <= 0
                  \/ lp3TrackList[i][id].pool \notin DOMAIN lastArg[i].ticks)
          => /\ lastErr = ""
             /\ accountBalancesPerToken = LpLedger

\* a position with a negative value in a pool whose tick is above the range,
\* and a position in a pool without a tick, have been passed over
C18_Witness ==
  /\ lastOp = "processLpRange"
  /\ lastErr = ""
  /\ LpId("0xcysflr", "0xa", "0xpool1", 1) \in DOMAIN lp3TrackList[1]
  /\ lp3TrackList[1][LpId("0xcysflr", "0xa", "0xpool1", 1)].value < 0
  /\ "0xpool1" \in DOMAIN lastArg[1].ticks
  /\ lastArg[1].ticks["0xpool1"] = 4
  /\ DOMAIN lp3TrackList[2] = {LpId("0xcysflr", "0xa", "0xpool2", 2)}
  /\ "0xpool2" \notin DOMAIN lastArg[2].ticks
  /\ accountBalancesPerToken = LpLedger

\* C19: a failure of the oracle call for a snapshot is raised by
\* processLpRange to its caller; the driver stops there and writes no
\* rewards.
C19_OracleFailureIsFatal ==
  [][/\ (/\ lastOp' = "processLpRange"
         /\ \E i \in 1..Len(snapshots) :
              lastArg'[i].kind = "error" /\ OracleReached(lastArg', i - 1))
        => /\ lastErr' = "Network error"
           /\ pc' = "failed"
           /\ output' = <<>>
     /\ pc = "failed" => (pc' = "failed" /\ output' = output)]_vars

\* the oracle answered for the first snapshot and failed for the second
C19_Witness ==
  /\ lastOp = "processLpRange"
  /\ lastArg[1].kind = "ticks"
  /\ lastArg[2].kind = "error"
  /\ lastErr = "Network error"
  /\ pc = "failed"
  /\ output = <<>>

\* ------------------------------------------------------------------------
\* Properties of the allocation to a single token (RewardSpec)
\* ------------------------------------------------------------------------
\* the tokens whose finals, in the balances of the run, sum to more than zero
TokensWithPositiveTotal ==
  LET balances == getEligibleBalances(accountBalancesPerToken, reports)
  IN {token \in DOMAIN balances : FieldSum(balances[token], "final") > 0}

\* C20: when exactly one configured token has a positive total eligible
\* balance, calculateRewards gives that token the whole pool: it returns
\* rewards for that token only, and each account's reward is
\* floor(final * pool / totalEligible).
C20_SingleTokenTakesWholePool ==
  (lastOp = "calculateRewards" /\ Cardinality(TokensWithPositiveTotal) = 1) =>
    LET balances == getEligibleBalances(accountBalancesPerToken, reports)
        token == CHOOSE t \in TokensWithPositiveTotal : TRUE
        total == FieldSum(balances[token], "final")
    IN /\ lastErr = ""
       /\ DOMAIN lastRet = {token}
       /\ DOMAIN lastRet[token] = DOMAIN balances[token]
       /\ \A address \in DOMAIN balances[token] :
            lastRet[token][address] = (balances[token][address].final * lastArg) \div total

\* ------------------------------------------------------------------------
\* Properties of the order of events (DriverSpec)
\* ------------------------------------------------------------------------
\* the block numbers of a list of records never decrease
BlocksAscending(records) ==
  \A i \in 1..Len(records) : \A j \in 1..Len(records) :
    i < j => records[i].blockNumber <= records[j].blockNumber

\* C21: the driver applies the events of a run in non-decreasing block order:
\* no transfer and no liquidity change is applied after an event of a strictly
\* greater block.  (The liquidity changes are applied after every transfer.)
C21_EventsInBlockOrder ==
  /\ BlocksAscending(transfers)
  /\ BlocksAscending(liquidities)
  /\ \A i \in 1..Len(transfers) : \A j \in 1..Len(liquidities) :
       transfers[i].blockNumber <= liquidities[j].blockNumber

\* ------------------------------------------------------------------------
\* Properties of the order of calls (Spec)
\* ------------------------------------------------------------------------
\* the events of the input that name a configured token
ConfiguredEvents ==
  {[kind |-> "transfer", record |-> t] : t \in {x \in Transfers : x.tokenAddress \in TokenKeys}}
    \cup {[kind |-> "liquidity", record |-> l] :
            l \in {x \in LiquidityChanges : x.tokenAddress \in TokenKeys}}

\* the snapshot slots of every entry of a ledger
SlotsOf(ledger) ==
  [token \in DOMAIN ledger |->
     [account \in DOMAIN ledger[token] |->
        <<ledger[token][account].netBalanceAtSnapshot1,
          ledger[token][account].netBalanceAtSnapshot2>>]]

\* C22: two event sequences that differ only in the order of events of the
\* same block leave the same values in all snapshot slots: after the events
\* applied so far, two further events of one block give the same slots in
\* either order.
C22_SameBlockOrderIrrelevant ==
  \A e1 \in ConfiguredEvents : \A e2 \in ConfiguredEvents :
    e1.record.blockNumber = e2.record.blockNumber =>
      SlotsOf(LedgerAfter(approvedSourceCache, accountBalancesPerToken, <<e1, e2>>)) =
        SlotsOf(LedgerAfter(approvedSourceCache, accountBalancesPerToken, <<e2, e1>>))

\* the part of an entry's current net balance that does not come from its
\* transfers: what the liquidity changes applied to it have added
LiquidityAdjustment(balance) ==
  balance.currentNetBalance - Max0(balance.transfersInFromApproved - balance.transfersOut)

\* C23: in any interleaving of processTransfer and processLiquidityPositions
\* an entry's currentNetBalance is max(0, transfersInFromApproved -
\* transfersOut) plus the sum of the depositedBalanceChange values applied to
\* it: a liquidity change adds its signed value to that sum, and a transfer
\* leaves the sum of its sender and of its receiver as it was.
C23_LiquidityAdjustmentKept ==
  [][/\ (lastOp' = "processTransfer" /\ lastErr' = "") =>
          \A account \in {lastArg'.from, lastArg'.to} :
            LiquidityAdjustment(accountBalancesPerToken'[lastArg'.tokenAddress][account]) =
              LiquidityAdjustment(
                EntryOrZero(accountBalancesPerToken[lastArg'.tokenAddress], account))
     /\ (lastOp' = "processLiquidityPositions" /\ lastErr' = "") =>
          LiquidityAdjustment(accountBalancesPerToken'[lastArg'.tokenAddress][lastArg'.owner]) =
            LiquidityAdjustment(
              EntryOrZero(accountBalancesPerToken[lastArg'.tokenAddress], lastArg'.owner))
              + BigInt(lastArg'.depositedBalanceChange)]_vars

\* ------------------------------------------------------------------------
\* Properties of the split of the pool between tokens (RewardSpec)
\* ------------------------------------------------------------------------
\* the total eligible balance per token and the tokenRewardShare per token
\* of the run's balances, for the pool of the last call
TotalEligible ==
  calculateTotalEligibleBalances(getEligibleBalances(accountBalancesPerToken, reports))

TokenRewardShare ==
  calculateRewardsPoolsPertoken(getEligibleBalances(accountBalancesPerToken, reports),
                                lastArg).pools

\* C24: of two tokens with positive total eligible balance, the one with the
\* smaller total receives a tokenRewardShare at least as large as the other's.
C24_SmallerTotalLargerShare ==
  (lastOp = "calculateRewards" /\ lastErr = "") =>
    LET tokens == TokensWithPositiveTotal
        total == TotalEligible
        share == TokenRewardShare
    IN \A t1 \in tokens : \A t2 \in tokens :
         total[t1] < total[t2] => share[t1] >= share[t2]

\* rewards have been calculated for two tokens of different positive totals,
\* and the token with the smaller total has the strictly larger share
C24_Witness ==
  /\ lastOp = "calculateRewards"
  /\ lastErr = ""
  /\ DOMAIN lastRet = TokenKeys
  /\ \E t1 \in TokensWithPositiveTotal : \E t2 \in TokensWithPositiveTotal :
       /\ TotalEligible[t1] < TotalEligible[t2]
       /\ TokenRewardShare[t1] > TokenRewardShare[t2]
       /\ TokenRewardShare[t2] > 0

\* the magnitude of the sum of the inverse fractions of the tokens with
\* balance
SumOfInverseFractions ==
  LET total == TotalEligible
      tokens == {token \in TokenKeys : total[token] > 0}
      sumOfAllBalances == SumOver(TokenKeys, total)
  IN BigIntSumOver(tokens,
        Built([token \in tokens |-> InverseFraction(sumOfAllBalances, total[token])]))

\* C25 as claimed: the reward per unit of eligible balance is the same for
\* any two tokens with positive total eligible balance, up to the rounding of
\* the two shares (each share being less than one unit below its exact
\* value): share[t1] / total[t1] = share[t2] / total[t2].
C25_RewardPerUnitEqual ==
  (lastOp = "calculateRewards" /\ lastErr = "") =>
    LET tokens == TokensWithPositiveTotal
        total == TotalEligible
        share == TokenRewardShare
    IN \A t1 \in tokens : \A t2 \in tokens :
         Abs(share[t1] * total[t2] - share[t2] * total[t1]) < total[t1] + total[t2]

\* C25 as the code has it: the shares are inversely proportional to the
\* totals, so the product share[t] * total[t], not the quotient, is the same
\* for any two tokens with positive total eligible balance, up to the
\* rounding of the two floor divisions: the products differ by less than
\* max(total[t1], total[t2]) * (1 + pool / sumOfInverseFractions).
C25_ShareTimesTotalEqual ==
  (lastOp = "calculateRewards" /\ lastErr = "") =>
    LET tokens == TokensWithPositiveTotal
        total == TotalEligible
        share == TokenRewardShare
        sumOfInverseFractions == SumOfInverseFractions
    IN \A t1 \in tokens : \A t2 \in tokens :
         LET difference == Abs(share[t1] * total[t1] - share[t2] * total[t2])
             largest == IF total[t1] > total[t2] THEN total[t1] ELSE total[t2]
             bound == BigIntTimes(BigIntPlus(Magnitude(lastArg), sumOfInverseFractions),
                                  largest)
             scaled == BigIntTimes(sumOfInverseFractions, difference)
         IN scaled # bound /\ BigIntLessOrEqual(scaled, bound)

\* rewards have been calculated for two tokens of which one has twice the
\* total of the other, and it has half the share
C25_Witness ==
  /\ lastOp = "calculateRewards"
  /\ lastErr = ""
  /\ lastArg = 100
  /\ \E t1 \in TokensWithPositiveTotal : \E t2 \in TokensWithPositiveTotal :
       /\ TotalEligible[t2] = 2 * TotalEligible[t1]
       /\ TokenRewardShare[t1] = 66
       /\ TokenRewardShare[t2] = 33

\* ------------------------------------------------------------------------
\* Properties of events after a snapshot (Spec)
\* ------------------------------------------------------------------------
\* the report lists the summaries and rewards are compared under
LateEventReportLists == {<<>>, <<Report("0xb", "0xa")>>}

\* the pool the rewards are compared for
LargestPool == CHOOSE pool \in Pools : \A other \in Pools : other <= pool

ZeroSummary ==
  [snapshot1 |-> 0, snapshot2 |-> 0, average |-> 0, penalty |-> 0, bounty |-> 0, final |-> 0]

\* every summary of the later balances is the summary the earlier balances
\* hold for that address (all zero when they hold none)
SameSummaries(later, earlier) ==
  \A token \in DOMAIN later : \A address \in DOMAIN later[token] :
    later[token][address] =
      IF address \in DOMAIN earlier[token] THEN earlier[token][address] ELSE ZeroSummary

\* every reward of the later result is the reward of the earlier result for
\* that address (zero when it has none)
SameRewards(later, earlier) ==
  /\ later.err = earlier.err
  /\ DOMAIN later.rewards = DOMAIN earlier.rewards
  /\ \A token \in DOMAIN later.rewards : \A address \in DOMAIN later.rewards[token] :
       later.rewards[token][address] =
         IF address \in DOMAIN earlier.rewards[token]
         THEN earlier.rewards[token][address] ELSE 0

\* C26: a transfer or liquidity change of block b changes no snapshot slot
\* whose boundary is below b; an event after the last snapshot changes no
\* slot of any account, and so no account's average, final or reward.
C26_LateEventsLeaveSlots ==
  [][lastOp' \in {"processTransfer", "processLiquidityPositions"} =>
       /\ \A token \in DOMAIN accountBalancesPerToken' :
            \A account \in DOMAIN accountBalancesPerToken'[token] :
              LET before == EntryOrZero(accountBalancesPerToken[token], account)
                  after == accountBalancesPerToken'[token][account]
              IN /\ lastArg'.blockNumber > snapshot1 =>
                      after.netBalanceAtSnapshot1 = before.netBalanceAtSnapshot1
                 /\ lastArg'.blockNumber > snapshot2 =>
                      after.netBalanceAtSnapshot2 = before.netBalanceAtSnapshot2
       /\ lastArg'.blockNumber > snapshot2 =>
            \A reportList \in LateEventReportLists :
              /\ SameSummaries(getEligibleBalances(accountBalancesPerToken', reportList),
                               getEligibleBalances(accountBalancesPerToken, reportList))
              /\ SameRewards(calculateRewards(accountBalancesPerToken', reportList, LargestPool),
                             calculateRewards(accountBalancesPerToken, reportList, LargestPool))]_vars

\* an event after the last snapshot has changed the balance of an account
\* whose second slot holds what it held at that snapshot
C26_Witness ==
  /\ lastOp \in {"processTransfer", "processLiquidityPositions"}
  /\ lastErr = ""
  /\ lastArg.blockNumber > snapshot2
  /\ \E account \in DOMAIN accountBalancesPerToken[lastArg.tokenAddress] :
       LET balance == accountBalancesPerToken[lastArg.tokenAddress][account]
       IN /\ balance.netBalanceAtSnapshot2 > 0
          /\ balance.currentNetBalance # balance.netBalanceAtSnapshot2

\* ------------------------------------------------------------------------
\* config.ts: generateSnapshotTimestampForEpoch
\* ------------------------------------------------------------------------
MaxEpochLength == 3

\* const range = 24 * 60 * 60
range == 24 * 60 * 60

\* what rng() returns: a number num / den of [0, 1).  The seed decides the
\* sequence of these numbers; a seed is modelled by the sequence it produces.
RngOutput(num, den) == [num |-> num, den |-> den]
RngOutputs == {RngOutput(0, 1), RngOutput(1, 131072), RngOutput(1, 2),
               RngOutput(16383, 16384)}
Seeds == [1..MaxEpochLength -> RngOutputs]

\* the epochs of the input: a number of days and the timestamp of the end
Epochs == {[length |-> n, timestamp |-> t] : n \in 0..MaxEpochLength,
                                              t \in {1735819200, 1738411200}}

\* Math.floor(rng() * range)
DailyRandomOffset(r) == (r.num * range) \div r.den

\* a timestamp that is always placed in the last day of the epoch
SnapshotTimestampLastDay(endTimestamp, i, dailyRandomOffset) ==
  (endTimestamp - range) + dailyRandomOffset

\* (endTimestamp - (i * range)) + dailyRandomOffset
SnapshotTimestamp(endTimestamp, i, dailyRandomOffset) ==
  (endTimestamp - (i * range)) + dailyRandomOffset

\* the loop for (i = 1; i <= len; i++) with its unshift
RECURSIVE SnapshotLoop(_, _, _, _)
SnapshotLoop(seed, epoch, i, snapshotTimestamps) ==
  IF i > epoch.length THEN snapshotTimestamps
  ELSE SnapshotLoop(seed, epoch, i + 1,
         <<SnapshotTimestamp(epoch.timestamp, i, DailyRandomOffset(seed[i]))>>
           \o snapshotTimestamps)

\* Array.prototype.sort((a, b) => a - b)
RECURSIVE SortAscending(_)
SortAscending(s) ==
  IF Len(s) <= 1 THEN s
  ELSE LET rest == SortAscending(Tail(s))
           lower == SelectSeq(rest, LAMBDA x : x < Head(s))
           upper == SelectSeq(rest, LAMBDA x : x >= Head(s))
       IN lower \o <<Head(s)>> \o upper

SnapshotLengthError == "failed to generated expected number of snapshots"

generateSnapshotTimestampForEpoch(seed, epoch) ==
  LET snapshotTimestamps == SnapshotLoop(seed, epoch, 1, <<>>)
  IN IF Len(snapshotTimestamps) # epoch.length
     THEN [timestamps |-> <<>>, err |-> SnapshotLengthError]
     ELSE [timestamps |-> SortAscending(snapshotTimestamps), err |-> ""]

\* the function called once, as main does before it sets up the processor
SnapshotInit ==
  /\ pc = "config"
  /\ Constructed(<<>>)

CallGenerateSnapshotTimestampForEpoch(seed, epoch) ==
  /\ pc = "config"
  /\ LET r == generateSnapshotTimestampForEpoch(seed, epoch)
     IN /\ lastRet' = r.timestamps
        /\ lastErr' = r.err
  /\ lastOp' = "generateSnapshotTimestampForEpoch"
  /\ lastArg' = [seed |-> seed, epoch |-> epoch]
  /\ lastRpc' = 0
  /\ lastScript' = <<>>
  /\ pc' = "configured"
  /\ UNCHANGED <<lp3TrackList, output, inFlight, locals>>
  /\ UNCHANGED <<approvedSourceCache, accountBalancesPerToken, accountTransfers,
                 reports, transfers, liquidities, nEvents>>

SnapshotNext ==
  \E seed \in Seeds, epoch \in Epochs : CallGenerateSnapshotTimestampForEpoch(seed, epoch)

SnapshotSpec == SnapshotInit /\ [][SnapshotNext]_vars

\* ------------------------------------------------------------------------
\* Properties of the snapshot timestamps (SnapshotSpec)
\* ------------------------------------------------------------------------
\* C27: whatever the generator outputs and the epoch,
\* generateSnapshotTimestampForEpoch returns exactly epoch.length timestamps,
\* strictly ascending, the k-th of them in the k-th of the epoch.length
\* consecutive 24-hour windows that end at epoch.timestamp.
C27_OneTimestampPerDay ==
  lastOp = "generateSnapshotTimestampForEpoch" =>
    LET len == lastArg.epoch.length
        start == lastArg.epoch.timestamp - len * range
    IN /\ lastErr = ""
       /\ Len(lastRet) = len
       /\ \A k \in 1..(len - 1) : lastRet[k] < lastRet[k + 1]
       /\ \A k \in 1..len :
            /\ start + (k - 1) * range <= lastRet[k]
            /\ lastRet[k] < start + k * range

\* timestamps of an epoch of several days, the generator's outputs differing
\* from day to day
C27_Witness ==
  /\ lastOp = "generateSnapshotTimestampForEpoch"
  /\ lastArg.epoch.length = MaxEpochLength
  /\ Len(lastRet) = MaxEpochLength
  /\ lastArg.seed[1] = RngOutput(16383, 16384)
  /\ lastArg.seed[2] = RngOutput(0, 1)
  /\ lastRet[MaxEpochLength] = lastArg.epoch.timestamp - range + 86394

\* C28: whatever the generator outputs and the epoch, every timestamp
\* returned is strictly greater than epoch.timestamp - epoch.length * 86400
\* and strictly less than epoch.timestamp.
C28_TimestampsStrictlyInsideEpoch ==
  lastOp = "generateSnapshotTimestampForEpoch" =>
    \A k \in 1..Len(lastRet) :
      /\ lastRet[k] > lastArg.epoch.timestamp - lastArg.epoch.length * range
      /\ lastRet[k] < lastArg.epoch.timestamp

\* ------------------------------------------------------------------------
\* Properties of the sender's side of a transfer (Spec)
\* ------------------------------------------------------------------------
\* C29: every processTransfer for a configured token adds exactly the
\* transfer value to the sender's transfersOut, recomputes the sender's
\* currentNetBalance from the two totals and writes it to the open slots,
\* whether or not the sender is approved or has ever received anything.
C29_SenderAlwaysDebited ==
  [][(lastOp' = "processTransfer" /\ lastArg'.tokenAddress \in TokenKeys) =>
       LET before == EntryOrZero(accountBalancesPerToken[lastArg'.tokenAddress],
                                 lastArg'.from)
           after == accountBalancesPerToken'[lastArg'.tokenAddress][lastArg'.from]
       IN /\ lastErr' = ""
          /\ after.transfersOut = before.transfersOut + BigInt(lastArg'.value)
          /\ after.currentNetBalance =
               Max0(after.transfersInFromApproved - after.transfersOut)
          /\ OpenSlotsHoldCurrent(after, lastArg'.blockNumber)]_vars

\* a transfer has been sent by an account that is not an approved source and
\* has never received from one, and by an approved source as well
C29_Witness ==
  /\ lastOp = "processTransfer"
  /\ lastErr = ""
  /\ lastRet = FALSE
  /\ lastArg.value = "2"
  /\ LET accountBalances == accountBalancesPerToken[lastArg.tokenAddress]
     IN /\ accountBalances[lastArg.from].transfersInFromApproved = 0
        /\ accountBalances[lastArg.from].transfersOut = 2
        /\ \E source \in DOMAIN accountBalances :
             /\ source \in DOMAIN approvedSourceCache
             /\ approvedSourceCache[source]
             /\ accountBalances[source].transfersOut > 0

\* ------------------------------------------------------------------------
\* The driver with lookups that meet transient failures
\* ------------------------------------------------------------------------
\* the RPC answers a transfer's lookup may get here: an answer at once, an
\* answer after a transient failure, transient failures only
AsyncScripts ==
  TransferScripts \cup {RpcScript(1, RpcReturn("0xfactory")),
                        [i \in 1..DefaultRetries |-> Transient]}

AsyncNext ==
  \/ \E transfer \in Transfers, script \in AsyncScripts :
       DriverProcessTransfer(transfer, script)
  \/ \E i \in 1..Len(inFlight) : ReadContractSettles(i)
  \/ \E i \in 1..Len(inFlight) : BackoffElapses(i)
  \/ \E i \in 1..Len(inFlight) : ResumeProcessTransfer(i)
  \/ DriverEndTransfers
  \/ \E liquidityChangeEvent \in LiquidityChanges :
       DriverProcessLiquidityPositions(liquidityChangeEvent)
  \/ DriverEndLiquidity

AsyncSpec == DriverInit /\ [][AsyncNext]_vars

\* ------------------------------------------------------------------------
\* Properties of the driver on the event loop (AsyncSpec)
\* ------------------------------------------------------------------------
\* the records taken from the two files so far, in the order they were taken
Consumed == transfers \o liquidities

\* C30: the driver never has two ledger-mutating calls in flight: a call is
\* made only when every call before it has completed, lookup retries
\* included, so the ledger is written for the events in the order they were
\* taken; and the step that writes the ledger for a processTransfer is the
\* step that completes it: no suspension lies between its ledger writes.
C30_OneLedgerCallInFlight ==
  [][/\ Len(inFlight') <= 1
     /\ Len(Consumed') - nEvents' = Len(inFlight')
     /\ (\/ accountBalancesPerToken' # accountBalancesPerToken
         \/ accountTransfers' # accountTransfers) =>
          /\ inFlight' = <<>>
          /\ nEvents' = nEvents + 1
          /\ lastArg' = Consumed'[nEvents']]_vars

\* a second transfer has completed after a lookup that took a retry, the
\* first having been applied before
C30_Witness ==
  /\ lastOp = "processTransfer"
  /\ nEvents = 2
  /\ lastRpc = 2
  /\ lastRet = TRUE
  /\ inFlight = <<>>
  /\ Len(transfers) = 2
  /\ lastArg = transfers[2]
  /\ transfers[1] # transfers[2]

\* ------------------------------------------------------------------------
\* Tracking of concentrated-liquidity positions: the V3 branch of
\* processLiquidityPositions writes lp3TrackList, which processLpRange reads.
\* `liquidities` holds the events processed so far.
\* ------------------------------------------------------------------------
\* a LiquidityChangeV2 / LiquidityChangeV3 record (types.ts); a V2 record
\* carries no position, its position fields are zero
LiquidityChangeOfType(typename, owner, depositedBalanceChange, blockNumber, tokenAddress, poolAddress, tokenId, lowerTick, upperTick) ==
  [typename |-> typename, owner |-> owner,
   depositedBalanceChange |-> depositedBalanceChange, blockNumber |-> blockNumber,
   tokenAddress |-> tokenAddress, poolAddress |-> poolAddress, tokenId |-> tokenId,
   lowerTick |-> lowerTick, upperTick |-> upperTick]

\* the key of the position a V3 event names
LpIdOf(liquidityChangeEvent) ==
  LpId(toLowerCase(liquidityChangeEvent.tokenAddress),
       toLowerCase(liquidityChangeEvent.owner),
       toLowerCase(liquidityChangeEvent.poolAddress),
       liquidityChangeEvent.tokenId)

\* the value a track map holds for a position, zero before its first event
TrackedValue(tracked, id) == IF id \in DOMAIN tracked THEN tracked[id].value ELSE 0

\* one boundary's track map after a V3 event credited to it
TrackAtSnapshot(tracked, liquidityChangeEvent) ==
  LET id == LpIdOf(liquidityChangeEvent)
  IN MapSet(tracked, id,
            LpTrack(TrackedValue(tracked, id)
                      + BigInt(liquidityChangeEvent.depositedBalanceChange),
                    toLowerCase(liquidityChangeEvent.poolAddress),
                    liquidityChangeEvent.lowerTick, liquidityChangeEvent.upperTick))

\* a tracking that credits an event to every boundary, also the ones before it
TrackLiquidityV3AnyBlock(trackList, liquidityChangeEvent) ==
  IF liquidityChangeEvent.typename # "LiquidityV3Change" THEN trackList
  ELSE [i \in 1..Len(snapshots) |-> TrackAtSnapshot(trackList[i], liquidityChangeEvent)]

\* the V3 branch: the signed change goes to the track map of every boundary
\* at or after the event's block
TrackLiquidityV3(trackList, liquidityChangeEvent) ==
  IF liquidityChangeEvent.typename # "LiquidityV3Change" THEN trackList
  ELSE [i \in 1..Len(snapshots) |->
          IF liquidityChangeEvent.blockNumber <= snapshots[i]
          THEN TrackAtSnapshot(trackList[i], liquidityChangeEvent)
          ELSE trackList[i]]

\* processLiquidityPositions of the Processor that tracks V3 positions: the
\* ledger update, then the tracking; an event of an unknown token changes
\* neither
processLiquidityPositionsTracked(ledger, trackList, liquidityChangeEvent) ==
  LET r == processLiquidityPositions(ledger, liquidityChangeEvent)
  IN [ledger |-> r.ledger, err |-> r.err,
      trackList |-> IF r.err = "" THEN TrackLiquidityV3(trackList, liquidityChangeEvent)
                    ELSE trackList]

\* the liquidity events of the input: V3 events of two positions of 0xa in
\* pool 1 and V2 events of 0xa, in cysFLR, and one V3 event of a token that is
\* not a cyToken
TrackedLiquidityChanges ==
  {LiquidityChangeOfType("LiquidityV3Change", "0xa", d, b, "0xcysflr", "0xpool1", id, 2, 3) :
     d \in LiquidityValues, b \in Blocks, id \in {1, 2}}
    \cup {LiquidityChangeOfType("LiquidityV2Change", "0xa", d, b, "0xcysflr", "0xpool2", 0, 0, 0) :
            d \in LiquidityValues, b \in {1, 2}}
    \cup {LiquidityChangeOfType("LiquidityV3Change", "0xa", "1", 1, "0xdead", "0xpool1", 1, 2, 3)}

TrackInit ==
  /\ pc = "liquidity"
  /\ Constructed(<<>>)

\* index.ts: for each line of the liquidity file, await
\* processor.processLiquidityPositions(liquidityChange)
TrackProcessLiquidityPositions(liquidityChangeEvent) ==
  /\ pc = "liquidity"
  /\ inFlight = <<>>
  /\ Len(liquidities) < MaxDriverEvents
  /\ LET r == processLiquidityPositionsTracked(accountBalancesPerToken, lp3TrackList,
                                               liquidityChangeEvent)
     IN /\ accountBalancesPerToken' = r.ledger
        /\ lp3TrackList' = r.trackList
        /\ Returned("processLiquidityPositions", liquidityChangeEvent, <<>>, r.err, 0, <<>>)
  /\ liquidities' = Append(liquidities, liquidityChangeEvent)
  /\ nEvents' = nEvents + 1
  /\ UNCHANGED <<approvedSourceCache, accountTransfers, reports, transfers, output,
                 inFlight, locals>>

\* the oracle's answers sampled for the tracked positions: a failure, pool 1
\* below the range [2, 3] or inside it
TrackOracles ==
  LET answers == {OracleFailure} \cup {OracleTicks(Built("0xpool1" :> t)) : t \in {1, 2}}
  IN {<<first, second>> : first \in answers, second \in answers}

TrackNext ==
  \/ \E liquidityChangeEvent \in TrackedLiquidityChanges :
       TrackProcessLiquidityPositions(liquidityChangeEvent)
  \/ DriverEndLiquidity
  \/ \E oracle \in TrackOracles : DriverProcessLpRange(oracle)
  \/ \E i \in 1..Len(inFlight) : GetPoolsTickSettles(i)

TrackSpec == TrackInit /\ [][TrackNext]_vars

\* ------------------------------------------------------------------------
\* Properties of the V3 tracking (TrackSpec)
\* ------------------------------------------------------------------------
\* the events of the list that were applied: the loop stops at the first
\* event that throws, which is then the last of the list
AppliedLiquidities ==
  IF pc = "failed" /\ lastOp = "processLiquidityPositions"
  THEN SubSeq(liquidities, 1, Len(liquidities) - 1)
  ELSE liquidities

\* the sum of the signed changes of the V3 events of a position at or before
\* a block
RECURSIVE SumOfV3Deltas(_, _, _)
SumOfV3Deltas(events, id, block) ==
  IF Len(events) = 0 THEN 0
  ELSE LET liquidityChangeEvent == events[Len(events)]
           rest == SumOfV3Deltas(SubSeq(events, 1, Len(events) - 1), id, block)
       IN IF /\ liquidityChangeEvent.typename = "LiquidityV3Change"
             /\ LpIdOf(liquidityChangeEvent) = id
             /\ liquidityChangeEvent.blockNumber <= block
          THEN rest + BigInt(liquidityChangeEvent.depositedBalanceChange)
          ELSE rest

\* the positions the input can name
TrackedIds == {LpIdOf(e) : e \in {x \in TrackedLiquidityChanges :
                                    x.typename = "LiquidityV3Change"}}

\* C31: in every token, the tracked value of a position at boundary i is the
\* sum of the signed depositedBalanceChange of that position's V3 events with
\* block <= boundary i; V2 events and events after the boundary add nothing,
\* and a position with no such event has no track entry
C31_TrackedValueIsSumOfDeltas ==
  LET applied == AppliedLiquidities
  IN \A i \in 1..Len(snapshots) :
       /\ DOMAIN lp3TrackList[i] \subseteq TrackedIds
       /\ \A id \in TrackedIds :
            /\ TrackedValue(lp3TrackList[i], id) = SumOfV3Deltas(applied, id, snapshots[i])
            /\ id \in DOMAIN lp3TrackList[i] <=>
                 \E k \in 1..Len(applied) :
                   /\ applied[k].typename = "LiquidityV3Change"
                   /\ LpIdOf(applied[k]) = id
                   /\ applied[k].blockNumber <= snapshots[i]

\* two V3 events of one position, the first at or before the first boundary
\* and the second after it, and a V2 event or not: the boundaries hold
\* different sums
C31_Witness ==
  /\ Len(liquidities) = 2
  /\ pc # "failed"
  /\ liquidities[1].typename = "LiquidityV3Change"
  /\ liquidities[2].typename = "LiquidityV3Change"
  /\ liquidities[1].tokenId = 1
  /\ liquidities[2].tokenId = 1
  /\ liquidities[1].blockNumber = 1
  /\ liquidities[2].blockNumber = 2
  /\ liquidities[1].depositedBalanceChange = "1"
  /\ liquidities[2].depositedBalanceChange = "1"
  /\ lp3TrackList[1][LpId("0xcysflr", "0xa", "0xpool1", 1)].value = 1
  /\ lp3TrackList[2][LpId("0xcysflr", "0xa", "0xpool1", 1)].value = 2

\* ------------------------------------------------------------------------
\* Frame of the two event handlers (Spec)
\* ------------------------------------------------------------------------
\* the ledger entries outside the given accounts of the given token are the
\* same entries with the same contents in both ledgers
SameEntriesExcept(later, earlier, tokenAddress, accounts) ==
  /\ DOMAIN later = DOMAIN earlier
  /\ \A token \in DOMAIN earlier :
       LET kept == IF token = tokenAddress THEN DOMAIN earlier[token] \ accounts
                   ELSE DOMAIN earlier[token]
           touched == IF token = tokenAddress THEN accounts ELSE {}
       IN /\ kept \subseteq DOMAIN later[token]
          /\ DOMAIN later[token] \subseteq DOMAIN earlier[token] \cup touched
          /\ \A account \in kept : later[token][account] = earlier[token][account]

\* C32: processTransfer changes at most the ledger entries (token, from) and
\* (token, to) of the transfer's own token, and processLiquidityPositions
\* changes at most the entry (token, owner) and leaves the approval cache as
\* it was; every other entry of every token is neither changed, added nor
\* removed.
C32_HandlersTouchOwnEntriesOnly ==
  [][/\ lastOp' = "processTransfer" =>
          SameEntriesExcept(accountBalancesPerToken', accountBalancesPerToken,
                            lastArg'.tokenAddress, {lastArg'.from, lastArg'.to})
     /\ lastOp' = "processLiquidityPositions" =>
          /\ SameEntriesExcept(accountBalancesPerToken', accountBalancesPerToken,
                               lastArg'.tokenAddress, {lastArg'.owner})
          /\ approvedSourceCache' = approvedSourceCache]_vars

\* a transfer from the router to 0xb has been processed while 0xa, which the
\* transfer does not name, holds an entry with a received amount
C32_Witness ==
  /\ lastOp = "processTransfer"
  /\ lastErr = ""
  /\ lastArg.from = "0xrouter"
  /\ lastArg.to = "0xb"
  /\ lastArg.tokenAddress = "0xcysflr"
  /\ "0xa" \in DOMAIN accountBalancesPerToken["0xcysflr"]
  /\ accountBalancesPerToken["0xcysflr"]["0xa"].transfersInFromApproved = 2
  /\ accountBalancesPerToken["0xcysflr"]["0xb"].transfersInFromApproved > 0

\* ------------------------------------------------------------------------
\* Monotone totals (Spec)
\* ------------------------------------------------------------------------
\* C33: in every step, every ledger entry that exists stays in the ledger,
\* its transfersInFromApproved and transfersOut do not decrease, and a
\* processLiquidityPositions step leaves both totals of every entry as they
\* were (a new entry has both at zero).
C33_TotalsNeverDecrease ==
  [][\A token \in DOMAIN accountBalancesPerToken :
       /\ token \in DOMAIN accountBalancesPerToken'
       /\ \A account \in DOMAIN accountBalancesPerToken[token] :
            /\ account \in DOMAIN accountBalancesPerToken'[token]
            /\ accountBalancesPerToken'[token][account].transfersInFromApproved
                 >= accountBalancesPerToken[token][account].transfersInFromApproved
            /\ accountBalancesPerToken'[token][account].transfersOut
                 >= accountBalancesPerToken[token][account].transfersOut
       /\ lastOp' = "processLiquidityPositions" =>
            \A account \in DOMAIN accountBalancesPerToken'[token] :
              LET before == EntryOrZero(accountBalancesPerToken[token], account)
                  after == accountBalancesPerToken'[token][account]
              IN /\ after.transfersInFromApproved = before.transfersInFromApproved
                 /\ after.transfersOut = before.transfersOut]_vars

\* 0xa has received 2 from the router and then 1 more: its total went from
\* 2 to 3
C33_Witness ==
  /\ lastOp = "processTransfer"
  /\ lastErr = ""
  /\ lastRet = TRUE
  /\ lastArg.to = "0xa"
  /\ lastArg.value = "1"
  /\ accountBalancesPerToken[lastArg.tokenAddress]["0xa"].transfersInFromApproved = 3

\* ------------------------------------------------------------------------
\* The two read methods called between the events (QuerySpec)
\* ------------------------------------------------------------------------
QueryInit ==
  /\ pc = "api"
  /\ \E reportList \in LateEventReportLists : Constructed(reportList)

\* events and reads in any order, every call awaited, a read any number of
\* times
QueryNext ==
  \/ /\ Awaited
     /\ \E transfer \in Transfers, script \in TransferScripts :
          CallProcessTransfer(transfer, script)
  \/ \E i \in 1..Len(inFlight) : ReadContractSettles(i)
  \/ \E i \in 1..Len(inFlight) : ResumeProcessTransfer(i)
  \/ /\ Awaited
     /\ \E liquidityChangeEvent \in LiquidityChanges :
          CallProcessLiquidityPositions(liquidityChangeEvent)
  \/ Awaited /\ CallGetEligibleBalances
  \/ Awaited /\ \E rewardPool \in Pools : CallCalculateRewards(rewardPool)
  \/ \E i \in 1..Len(inFlight) : ResumeGetEligibleBalances(i)
  \/ \E i \in 1..Len(inFlight) : ResumeCalculateRewards(i)

QuerySpec == QueryInit /\ [][QueryNext]_vars

\* ------------------------------------------------------------------------
\* A caller that does not await (OverlapSpec): calls are started while
\* earlier ones are suspended, and the suspended calls resume in any order
\* ------------------------------------------------------------------------
MaxInFlight == 2

OverlapTransfers ==
  {Transfer("0xpool", to, "1", 1, "0xcysflr") : to \in {"0xa", "0xb"}}
    \cup {Transfer("0xrouter", "0xa", "2", 1, "0xcysflr")}

OverlapNext ==
  \/ /\ Len(inFlight) < MaxInFlight
     /\ \E source \in {"0xpool", "0xPool"}, script \in TransferScripts :
          CallIsApprovedSource(source, script)
  \/ /\ Len(inFlight) < MaxInFlight
     /\ \E transfer \in OverlapTransfers, script \in TransferScripts :
          CallProcessTransfer(transfer, script)
  \/ \E i \in 1..Len(inFlight) : ReadContractSettles(i)
  \/ \E i \in 1..Len(inFlight) : ResumeProcessTransfer(i)
  \/ Len(inFlight) < MaxInFlight /\ CallGetEligibleBalances
  \/ Len(inFlight) < MaxInFlight /\ CallCalculateRewards(LargestPool)
  \/ \E i \in 1..Len(inFlight) : ResumeGetEligibleBalances(i)
  \/ \E i \in 1..Len(inFlight) : ResumeCalculateRewards(i)

OverlapSpec == Init /\ [][OverlapNext]_vars

\* a getEligibleBalances or a calculateRewards has started and not returned
ReadInFlight ==
  \E i \in 1..Len(inFlight) : inFlight[i].op \in {"getEligibleBalances", "calculateRewards"}

\* C34: a getEligibleBalances or calculateRewards call leaves every ledger
\* entry, the approval cache and the transfer log as they were; what it
\* returns is what the method yields on the ledger after the call as well,
\* and a call that directly follows the same call returns the same result.
C34_ReadsLeaveLedger ==
  [][/\ (ReadInFlight \/ ReadInFlight') =>
          /\ accountBalancesPerToken' = accountBalancesPerToken
          /\ approvedSourceCache' = approvedSourceCache
          /\ accountTransfers' = accountTransfers
     /\ (lastOp' = "getEligibleBalances" \/ lastOp' = "calculateRewards") =>
       /\ IF lastOp' = "getEligibleBalances"
          THEN lastRet' = getEligibleBalances(accountBalancesPerToken', reports')
          ELSE LET r == calculateRewards(accountBalancesPerToken', reports', lastArg')
               IN lastRet' = r.rewards /\ lastErr' = r.err
       /\ (lastOp = lastOp' /\ lastArg = lastArg') =>
            (lastRet' = lastRet /\ lastErr' = lastErr)]_vars

\* getEligibleBalances has been called after a first event and before a
\* second one can come, on a ledger where 0xa holds 2 at both snapshots and
\* is reported by 0xb
C34_Witness ==
  /\ lastOp = "getEligibleBalances"
  /\ nEvents = 1
  /\ reports = <<Report("0xb", "0xa")>>
  /\ "0xb" \notin DOMAIN accountBalancesPerToken["0xcysflr"]
  /\ "0xa" \in DOMAIN lastRet["0xcysflr"]
  /\ lastRet["0xcysflr"]["0xa"].average = 2
  /\ lastRet["0xcysflr"]["0xa"].final = 0

\* ------------------------------------------------------------------------
\* A cheater that reports itself (RewardSpec)
\* ------------------------------------------------------------------------
\* C35: for every token, an address that is named as cheater in at least one
\* report and is the reporter of no report about a different address has a
\* final balance of at most zero.
C35_SelfReportKeepsNothing ==
  lastOp = "getEligibleBalances" =>
    \A token \in DOMAIN lastRet :
      \A address \in DOMAIN lastRet[token] :
        (/\ \E k \in 1..Len(reports) : toLowerCase(reports[k].cheater) = address
         /\ \A k \in 1..Len(reports) :
              toLowerCase(reports[k].reporter) = address =>
                toLowerCase(reports[k].cheater) = address)
          => lastRet[token][address].final <= 0

\* ------------------------------------------------------------------------
\* Addresses in mixed letter case (CaseSpec)
\* ------------------------------------------------------------------------
\* transfers from the router to one account, named in checksum case "0xA" or
\* in lower case "0xa"
MixedCaseTransfers ==
  {Transfer("0xrouter", to, v, b, "0xcysflr") :
     to \in {"0xA", "0xa"}, v \in TransferValues, b \in Blocks}

\* liquidity changes of the same account, in either letter case
MixedCaseLiquidityChanges ==
  {LiquidityChange(owner, d, b, "0xcysflr") :
     owner \in {"0xA", "0xa"}, d \in LiquidityValues, b \in Blocks}

CaseInit ==
  /\ pc = "api"
  /\ Constructed(<<>>)

\* (the router is allow-listed: no lookup of these transfers reaches
\* readContract)
CaseNext ==
  \/ /\ Awaited
     /\ \E transfer \in MixedCaseTransfers, script \in TransferScripts :
          CallProcessTransfer(transfer, script)
  \/ \E i \in 1..Len(inFlight) : ResumeProcessTransfer(i)
  \/ /\ Awaited
     /\ \E liquidityChangeEvent \in MixedCaseLiquidityChanges :
          CallProcessLiquidityPositions(liquidityChangeEvent)
  \/ Awaited /\ CallGetEligibleBalances
  \/ \E i \in 1..Len(inFlight) : ResumeGetEligibleBalances(i)

CaseSpec == CaseInit /\ [][CaseNext]_vars

\* C36: for every address that has a ledger entry for a token,
\* getEligibleBalances reports that entry's two snapshot values, whatever the
\* letter case of the address in the event that created the entry, and no two
\* ledger entries of a token belong to one address in different letter case.
C36_LetterCaseIrrelevant ==
  /\ \A token \in DOMAIN accountBalancesPerToken :
       \A a, b \in DOMAIN accountBalancesPerToken[token] :
         isSameAddress(a, b) => a = b
  /\ lastOp = "getEligibleBalances" =>
       \A token \in DOMAIN accountBalancesPerToken :
         \A address \in DOMAIN accountBalancesPerToken[token] :
           /\ address \in DOMAIN lastRet[token]
           /\ lastRet[token][address].snapshot1 =
                accountBalancesPerToken[token][address].netBalanceAtSnapshot1
           /\ lastRet[token][address].snapshot2 =
                accountBalancesPerToken[token][address].netBalanceAtSnapshot2

\* ------------------------------------------------------------------------
\* Sign of the slots after the range corrections (TrackSpec)
\* ------------------------------------------------------------------------
\* C37: after processLpRange has run, no snapshot slot of any account of any
\* token is negative, whatever liquidity changes preceded it.
C37_NoNegativeSlotAfterCorrection ==
  (lastOp = "processLpRange" /\ lastErr = "") =>
    \A token \in DOMAIN accountBalancesPerToken :
      \A account \in DOMAIN accountBalancesPerToken[token] :
        \A i \in 1..Len(snapshots) :
          SnapshotSlot(accountBalancesPerToken[token][account], i) >= 0

\* ------------------------------------------------------------------------
\* Rewards within one token (RewardSpec)
\* ------------------------------------------------------------------------
\* C38: within one token the rewards are monotone in the final balance, an
\* account with final 0 gets reward 0, every reward lies between 0 and the
\* token's reward share, and the shares of all tokens sum to at most the pool.
C38_RewardsMonotoneAndBounded ==
  (lastOp = "calculateRewards" /\ lastErr = "") =>
    LET balances == getEligibleBalances(accountBalancesPerToken, reports)
        shares == calculateRewardsPoolsPertoken(balances, lastArg).pools
    IN /\ SumOver(DOMAIN shares, shares) <= lastArg
       /\ \A token \in DOMAIN lastRet :
            \A a \in DOMAIN lastRet[token] :
              /\ balances[token][a].final = 0 => lastRet[token][a] = 0
              /\ lastRet[token][a] >= 0
              /\ lastRet[token][a] <= shares[token]
              /\ \A b \in DOMAIN lastRet[token] :
                   balances[token][a].final <= balances[token][b].final =>
                     lastRet[token][a] <= lastRet[token][b]

\* ------------------------------------------------------------------------
\* Moving a balance into a liquidity position (Spec)
\* ------------------------------------------------------------------------
\* the two events of 0xa moving v units of cysFLR into a position at a
\* block: the transfer to the pool and the liquidity deposit of the same value
MoveIntoPosition(v, blockNumber) ==
  [transfer |-> [kind |-> "transfer",
                 record |-> Transfer("0xa", "0xpool", v, blockNumber, "0xcysflr")],
   deposit |-> [kind |-> "liquidity",
                record |-> LiquidityChange("0xa", v, blockNumber, "0xcysflr")]]

\* the slots of the boundaries at or after the block are the same in both
\* entries
SameOpenSlots(later, earlier, blockNumber) ==
  \A i \in 1..Len(snapshots) :
    blockNumber <= snapshots[i] => SnapshotSlot(later, i) = SnapshotSlot(earlier, i)

\* C39: after any history, a transfer of v out of an account together with a
\* liquidity deposit of +v of the same owner, token and block leaves the
\* account's snapshot slots of the boundaries at or after that block as they
\* were, in either processing order of the two events.
C39_MoveIntoPositionKeepsSlots ==
  LET before == EntryOrZero(accountBalancesPerToken["0xcysflr"], "0xa")
  IN \A v \in TransferValues : \A blockNumber \in Blocks :
       LET pair == MoveIntoPosition(v, blockNumber)
           transferFirst == LedgerAfter(approvedSourceCache, accountBalancesPerToken,
                                        <<pair.transfer, pair.deposit>>)
           depositFirst == LedgerAfter(approvedSourceCache, accountBalancesPerToken,
                                       <<pair.deposit, pair.transfer>>)
       IN /\ SameOpenSlots(transferFirst["0xcysflr"]["0xa"], before, blockNumber)
          /\ SameOpenSlots(depositFirst["0xcysflr"]["0xa"], before, blockNumber)

====
